---- MODULE Spec2Model ----
(***************************************************************************)
(* StockTrace client: the entity cache of src/src/CacheContext.jsx.        *)
(*                                                                         *)
(* React state is modelled by two variables.  `cache` is the state React   *)
(* holds: every setCache(prev => ...) updater is applied to it, in call    *)
(* order.  `rendered` is the `cache` constant of the latest render of      *)
(* CacheProvider: it is the value the closures fetchWithCache,             *)
(* isCacheValid and getDocuments read (useCallback(..., [cache])).  The    *)
(* two differ from a setCache call until the next render.                  *)
(*                                                                         *)
(* `user` is the principal AuthProvider holds, `page` the useState values  *)
(* of the page components and `requests` their api calls in flight.        *)
(* `auth` is the rest of the session: the stored token, AuthProvider's     *)
(* loading flag, the startup getMe request and a login request in flight.  *)
(* `search` is the state of the search box of the layout and its timers.   *)
(***************************************************************************)
EXTENDS Integers, Sequences, FiniteSets, TLC

VARIABLES cache, rendered, now, calls, server, events, lastOp, lastFetch,
          user, page, requests, auth, search

(* the state outside CacheProvider: AuthProvider, the pages, their api calls *)
pageVars == <<user, page, requests, auth, search>>

vars == <<cache, rendered, now, calls, server, events, lastOp, lastFetch, pageVars>>

----------------------------------------------------------------------------
(* Bounds of the model *)

(* calls, cache operations, clock ticks and backend changes in one run *)
MaxEvents == 3

(* the same, in a run over all fifteen helpers *)
MaxHelperEvents == 2

(* runs of one waiting call's setInterval callback *)
MaxPolls == 1

(* entity ids *)
MaxId == 2

----------------------------------------------------------------------------
(* The eight slots, CacheContext.jsx:16-25 *)

MasterKeys == {"warehouses", "locations", "products", "users"}

DocTypes == {"receipts", "deliveries", "transfers", "adjustments"}

Keys == MasterKeys \cup DocTypes

(* data: null is the empty tuple, a list l is the one-element tuple <<l>>,  *)
(* so that the empty list (truthy in JavaScript) differs from null.         *)
NULL == <<>>

Some(list) == <<list>>

Val(data) == data[1]

(* timestamp: null; `!cached.timestamp` is true of null and of 0 alike *)
NullTimestamp == 0

(* warehouseId = null; `warehouseId ? ... : ...` is false of null and of 0 alike *)
NullId == 0

EmptySlot == [data |-> NULL, timestamp |-> NullTimestamp, loading |-> FALSE]

(* Cache expiry time, CacheContext.jsx:28 *)
CACHE_DURATION == 5 * 60 * 1000

(* CacheContext.jsx:141 *)
DOCUMENT_CACHE_DURATION == 1 * 60 * 1000

----------------------------------------------------------------------------
(* Entities: the cache reads only `id` (and `status` of a document) *)

Ids == 1..MaxId

Names == {"old", "new"}

Statuses == {"DRAFT", "CONFIRMED"}

StatusFilters == {""} \cup Statuses

Payload(key) == IF key \in DocTypes THEN "status" ELSE "name"

PayloadValues(key) == IF key \in DocTypes THEN Statuses ELSE Names

(* a location carries the warehouse it belongs to (Locations.jsx:31) *)
Entity(key, id, v) ==
    IF key \in DocTypes THEN [id |-> id, status |-> v]
    ELSE IF key = "locations" THEN [id |-> id, name |-> v, warehouse_id |-> id]
    ELSE [id |-> id, name |-> v]

Entities(key) == {Entity(key, i, v) : i \in Ids, v \in PayloadValues(key)}

(* The backend's list for a key: entity 1 at first; a change by another     *)
(* client adds entity 2 and edits entity 1 (a DRAFT document is confirmed). *)
InitialList(key) ==
    <<Entity(key, 1, IF key \in DocTypes THEN "DRAFT" ELSE "old")>>

ChangedList(key) ==
    <<Entity(key, 1, IF key \in DocTypes THEN "CONFIRMED" ELSE "new"),
      Entity(key, 2, IF key \in DocTypes THEN "DRAFT" ELSE "old")>>

(* part_006: `throw new Error('Failed to fetch products')`, or fetch itself rejects *)
Errors == {"Failed to fetch", "NetworkError"}

(* AuthContext.jsx:15 and 52-53: no user, or a user with a role *)
NullUser == ""

(* localStorage.getItem('token') when no token is stored *)
NoToken == ""

Principals == {"ADMIN", "STAFF"}

(* SearchBar.jsx:19-21 before the component is mounted: no timer is set.   *)
(* timers: the pending timeouts; debounceTimer: the one the latest effect  *)
(* made; changedAt and called are history, for the claims: when the query  *)
(* last changed, and the calls of api.smartSearch made                     *)
EmptySearch ==
    [query |-> <<>>, suggestions |-> <<>>, showSuggestions |-> FALSE,
     timers |-> {}, debounceTimer |-> 0, nextTimer |-> 1, changedAt |-> 0,
     called |-> <<>>, requests |-> <<>>]

(* the pages' lists before their first load: useState([]) *)
EmptyPage ==
    [documents |-> <<>>, products |-> <<>>, warehouses |-> <<>>, ledger |-> <<>>,
     loaded |-> {}]

----------------------------------------------------------------------------
(* List operations of JavaScript used by the cache *)

(* Array.prototype.filter is SelectSeq; Array.prototype.map is written out   *)
(* as [i \in 1..Len(list) |-> ...]                                          *)

(* { ...w, ...updates } *)
Merge(w, updates) ==
    [f \in (DOMAIN w) \cup (DOMAIN updates) |->
        IF f \in DOMAIN updates THEN updates[f] ELSE w[f]]

Range(list) == {list[i] : i \in 1..Len(list)}

(* History, for the claims.  lastOp: the last operation on the cache, its   *)
(* argument, the operation before it and the number of operations made.     *)
(* lastFetch[k]: when the last successful fetch of k stored its data, null  *)
(* once k is invalidated.                                                   *)
NoArg == [id |-> NullId]

Op(op, key, arg) ==
    [op |-> op, key |-> key, arg |-> arg,
     prev |-> [op |-> lastOp.op, id |-> lastOp.arg.id], n |-> lastOp.n + 1]

----------------------------------------------------------------------------

Init ==
    /\ cache = [k \in Keys |-> EmptySlot]
    /\ rendered = [k \in Keys |-> EmptySlot]
    /\ now = 1
    /\ calls = <<>>
    /\ server = [k \in Keys |-> InitialList(k)]
    /\ events = 0
    /\ lastOp = [op |-> "", key |-> "", arg |-> NoArg,
                 prev |-> [op |-> "", id |-> NullId], n |-> 0]
    /\ lastFetch = [k \in Keys |-> NullTimestamp]
    /\ user = "ADMIN"
    /\ auth = [token |-> "stored", loading |-> FALSE, getMe |-> "done", login |-> NullUser]
    /\ page = EmptyPage
    /\ requests = <<>>
    /\ search = EmptySearch

----------------------------------------------------------------------------
(* Remote Data Client, src/unnamed/part_006 *)

(* api.getLocations(warehouseId): the backend filters by warehouse_id *)
api_getLocations(warehouseId) ==
    IF warehouseId # NullId
    THEN SelectSeq(server["locations"], LAMBDA l : l.warehouse_id = warehouseId)
    ELSE server["locations"]

(* the backend's answer to the request of a call, as of now *)
Answer(call) ==
    IF call.fetchFunction = "getLocations" THEN api_getLocations(call.arg)
    ELSE server[call.key]

(* what fetchFunction() of a call resolves to when the request succeeds: the *)
(* answer the backend made when it served the request, which is now unless  *)
(* the response has been under way since an earlier moment                  *)
Response(call) ==
    IF call.served # NULL THEN Val(call.served) ELSE Answer(call)

----------------------------------------------------------------------------
(* fetchWithCache, CacheContext.jsx:31-84 *)

(* isCacheValid reads the `cache` of the render that created the closure *)
isCacheValid(key) ==
    LET cached == rendered[key]
    IN  IF cached.data = NULL \/ cached.timestamp = NullTimestamp THEN FALSE
        ELSE now - cached.timestamp < CACHE_DURATION

(* SetLoading without the `...prev[key]` spread: data and timestamp are lost *)
SetLoading_noSpread(key, loading) ==
    [cache EXCEPT ![key] = [EmptySlot EXCEPT !.loading = loading]]

(* setCache(prev => ({...prev, [key]: {...prev[key], loading}})), lines 57-60, 78-81 *)
SetLoading(key, loading) ==
    [cache EXCEPT ![key] = [cache[key] EXCEPT !.loading = loading]]

(* the slot written on success, lines 66-73 *)
FetchedSlot(data) == [data |-> Some(data), timestamp |-> now, loading |-> FALSE]

(* getDocuments' in-memory filter, lines 147-150 and 154-160 *)
FilterByStatus(list, statusFilter) ==
    IF statusFilter # ""
    THEN SelectSeq(list, LAMBDA doc : doc.status = statusFilter)
    ELSE list

(* the value a caller gets from `data`: getDocuments filters, the rest pass it on *)
Returned(call, data) ==
    IF call.via = "getDocuments" /\ data # NULL
    THEN Some(FilterByStatus(Val(data), call.statusFilter))
    ELSE data

(* indexes of the calls whose fetchFunction is outstanding on key *)
Outstanding(key) ==
    {c \in 1..Len(calls) : calls[c].key = key /\ calls[c].pc = "fetching"}

(* indexes of the calls on key whose promise is not settled *)
Unsettled(key) ==
    {c \in 1..Len(calls) : calls[c].key = key /\ calls[c].pc \in {"fetching", "waiting"}}

NewCall(key, fetchFunction, arg, forceRefresh, via, statusFilter) ==
    [key |-> key, fetchFunction |-> fetchFunction, arg |-> arg,
     forceRefresh |-> forceRefresh, via |-> via, statusFilter |-> statusFilter,
     pc |-> "start", result |-> NULL, error |-> "", invoked |-> 0, polls |-> 0,
     served |-> NULL, seen |-> rendered[key],
     \* history, for the claims: the state the call was made in
     slot |-> cache[key], issued |-> now, pending |-> Unsettled(key),
     after |-> lastOp.op, lastFetch |-> lastFetch[key]]

(* Branch with forceRefresh ignored: a fresh slot is served from the cache *)
Branch_forceIgnored(key, forceRefresh) ==
    IF isCacheValid(key) THEN "cached"
    ELSE IF rendered[key].loading THEN "wait"
    ELSE "fetch"

(* which of its three branches a call takes, lines 40, 45 and 57 *)
Branch(key, forceRefresh) ==
    IF ~forceRefresh /\ isCacheValid(key) THEN "cached"
    ELSE IF rendered[key].loading THEN "wait"
    ELSE "fetch"

(* One call of fetchWithCache up to its first suspension point. *)
fetchWithCache(key, fetchFunction, arg, forceRefresh, via, statusFilter) ==
    LET call == NewCall(key, fetchFunction, arg, forceRefresh, via, statusFilter)
        branch == Branch(key, forceRefresh)
    IN
    /\ events < MaxEvents
    /\ events' = events + 1
    /\ IF branch = "cached"
       THEN \* line 41: return cache[key].data
            /\ calls' = Append(calls, [call EXCEPT !.pc = "resolved",
                                   !.result = Returned(call, rendered[key].data)])
            /\ cache' = cache
       ELSE IF branch = "wait"
       THEN \* lines 45-54: wait for the existing request
            /\ calls' = Append(calls, [call EXCEPT !.pc = "waiting"])
            /\ cache' = cache
       ELSE \* lines 57-63: set loading, call fetchFunction
            /\ calls' = Append(calls, [call EXCEPT !.pc = "fetching", !.invoked = 1])
            /\ cache' = SetLoading(key, TRUE)
    /\ lastOp' = Op("fetchWithCache", key, NoArg)
    /\ UNCHANGED <<pageVars, rendered, now, server, lastFetch>>

(* the backend serves the request of a fetching call; its response is under *)
(* way from now on                                                          *)
Serve(c) ==
    /\ c \in 1..Len(calls)
    /\ calls[c].pc = "fetching"
    /\ calls[c].served = NULL
    /\ calls' = [calls EXCEPT ![c].served = Some(Answer(calls[c]))]
    /\ UNCHANGED <<pageVars, cache, rendered, now, server, events, lastOp, lastFetch>>

(* fetchFunction resolved: lines 63-75 *)
FetchSucceed(c) ==
    /\ c \in 1..Len(calls)
    /\ calls[c].pc = "fetching"
    /\ LET data == Response(calls[c])
       IN  /\ cache' = [cache EXCEPT ![calls[c].key] = FetchedSlot(data)]
           /\ calls' = [calls EXCEPT ![c].pc = "resolved",
                                     ![c].result = Returned(calls[c], Some(data))]
    /\ lastOp' = Op("FetchSucceed", calls[c].key, NoArg)
    /\ lastFetch' = [lastFetch EXCEPT ![calls[c].key] = now]
    /\ UNCHANGED <<pageVars, rendered, now, server, events>>

(* fetchFunction threw: lines 76-83 *)
FetchFail(c, error) ==
    /\ c \in 1..Len(calls)
    /\ calls[c].pc = "fetching"
    /\ cache' = SetLoading(calls[c].key, FALSE)
    /\ calls' = [calls EXCEPT ![c].pc = "rejected", ![c].error = error]
    /\ lastOp' = Op("FetchFail", calls[c].key, [id |-> NullId, error |-> error])
    /\ UNCHANGED <<pageVars, rendered, now, server, events, lastFetch>>

(* Poll that reads the slot as it is now instead of the render's constant *)
Poll_live(c) ==
    /\ c \in 1..Len(calls)
    /\ calls[c].pc = "waiting"
    /\ calls[c].polls < MaxPolls
    /\ IF ~cache[calls[c].key].loading
       THEN calls' = [calls EXCEPT ![c].pc = "resolved",
                                   ![c].result = Returned(calls[c], cache[calls[c].key].data),
                                   ![c].polls = @ + 1]
       ELSE calls' = [calls EXCEPT ![c].polls = @ + 1]
    /\ UNCHANGED <<pageVars, cache, rendered, now, server, events, lastOp, lastFetch>>

(* one run of the setInterval callback, lines 47-52: `cache` is the render's *)
(* constant the call was made with                                          *)
Poll(c) ==
    /\ c \in 1..Len(calls)
    /\ calls[c].pc = "waiting"
    /\ calls[c].polls < MaxPolls
    /\ IF ~calls[c].seen.loading
       THEN calls' = [calls EXCEPT ![c].pc = "resolved",
                                   ![c].result = Returned(calls[c], calls[c].seen.data),
                                   ![c].polls = @ + 1]
       ELSE calls' = [calls EXCEPT ![c].polls = @ + 1]
    /\ UNCHANGED <<pageVars, cache, rendered, now, server, events, lastOp, lastFetch>>

----------------------------------------------------------------------------
(* The getters, CacheContext.jsx:121-161 *)

getWarehouses(forceRefresh) ==
    fetchWithCache("warehouses", "getWarehouses", NullId, forceRefresh, "fetchWithCache", "")

getLocations(warehouseId, forceRefresh) ==
    fetchWithCache("locations", "getLocations", warehouseId, forceRefresh, "fetchWithCache", "")

getProducts(forceRefresh) ==
    fetchWithCache("products", "getProducts", NullId, forceRefresh, "fetchWithCache", "")

getUsers(forceRefresh) ==
    fetchWithCache("users", "getUsers", NullId, forceRefresh, "fetchWithCache", "")

(* lines 143-145: the test getDocuments makes itself *)
DocumentCacheValid(type) ==
    LET cached == rendered[type]
    IN  /\ cached.data # NULL
        /\ cached.timestamp # NullTimestamp
        /\ now - cached.timestamp < DOCUMENT_CACHE_DURATION

getDocuments(type, statusFilter, forceRefresh) ==
    IF ~forceRefresh /\ DocumentCacheValid(type)
    THEN \* lines 146-150
         LET call == NewCall(type, "getDocuments", NullId, forceRefresh,
                             "getDocuments", statusFilter)
         IN  /\ events < MaxEvents
             /\ events' = events + 1
             /\ calls' = Append(calls, [call EXCEPT !.pc = "resolved",
                                    !.result = Returned(call, rendered[type].data)])
             /\ lastOp' = Op("getDocuments", type, NoArg)
             /\ UNCHANGED <<pageVars, cache, rendered, now, server, lastFetch>>
    ELSE \* lines 153-160
         fetchWithCache(type, "getDocuments", NullId, forceRefresh, "getDocuments", statusFilter)

----------------------------------------------------------------------------
(* Cache management, CacheContext.jsx:87-118 *)

(* UpdatedSlot that leaves the slot without a time stamp *)
UpdatedSlot_noStamp(data) == [data |-> data, timestamp |-> NullTimestamp, loading |-> FALSE]

(* the slot updateCache writes, lines 90-94 *)
UpdatedSlot(data) == [data |-> data, timestamp |-> now, loading |-> FALSE]

(* updateCache that spreads the cache of its render instead of prev *)
updateCache_closure(key, data) ==
    [rendered EXCEPT ![key] = UpdatedSlot(data)]

(* data is updater(prev[key].data), or updater itself when it is no function *)
updateCache(key, data) ==
    [cache EXCEPT ![key] = UpdatedSlot(data)]

invalidateCache(key) ==
    /\ events < MaxEvents
    /\ cache' = [cache EXCEPT ![key] = EmptySlot]
    /\ events' = events + 1
    /\ lastOp' = Op("invalidateCache", key, NoArg)
    /\ lastFetch' = [lastFetch EXCEPT ![key] = NullTimestamp]
    /\ UNCHANGED <<pageVars, rendered, now, calls, server>>

clearAllCache ==
    /\ events < MaxEvents
    /\ cache' = [k \in Keys |-> EmptySlot]
    /\ events' = events + 1
    /\ lastOp' = Op("clearAllCache", "", NoArg)
    /\ lastFetch' = [k \in Keys |-> NullTimestamp]
    /\ UNCHANGED <<pageVars, rendered, now, calls, server>>

----------------------------------------------------------------------------
(* Optimistic update helpers, CacheContext.jsx:164-235 and 255-267 *)

(* Appended that puts the new entity first *)
Appended_first(current, entity) ==
    IF current # NULL THEN Some(<<entity>> \o Val(current)) ELSE Some(<<entity>>)

(* current ? [...current, entity] : [entity] *)
Appended(current, entity) ==
    IF current # NULL THEN Some(Append(Val(current), entity)) ELSE Some(<<entity>>)

(* current ? current.map(w => w.id === id ? { ...w, ...updates } : w) : current *)
Patched(current, id, updates) ==
    IF current # NULL
    THEN Some([i \in 1..Len(Val(current)) |->
                 LET w == Val(current)[i]
                 IN  IF w.id = id THEN Merge(w, updates) ELSE w])
    ELSE current

(* current ? current.map(l => l.id === entity.id ? entity : l) : current *)
Replaced(current, entity) ==
    IF current # NULL
    THEN Some([i \in 1..Len(Val(current)) |->
                 LET l == Val(current)[i]
                 IN  IF l.id = entity.id THEN entity ELSE l])
    ELSE current

(* Removed that turns a null list into an empty one *)
Removed_nullToEmpty(current, id) ==
    IF current # NULL
    THEN Some(SelectSeq(Val(current), LAMBDA w : w.id # id))
    ELSE Some(<<>>)

(* Removed that deletes the first match only (findIndex and splice) *)
Removed_firstOnly(current, id) ==
    IF current = NULL THEN current
    ELSE LET list == Val(current)
             hits == {i \in 1..Len(list) : list[i].id = id}
         IN  IF hits = {} THEN current
             ELSE LET first == CHOOSE i \in hits : \A j \in hits : i <= j
                  IN  Some([i \in 1..(Len(list) - 1) |->
                               IF i < first THEN list[i] ELSE list[i + 1]])

(* current ? current.filter(w => w.id !== id) : current *)
Removed(current, id) ==
    IF current # NULL
    THEN Some(SelectSeq(Val(current), LAMBDA w : w.id # id))
    ELSE current

(* one helper call: updateCache(key, updater) and nothing else *)
Helper(op, key, arg, data) ==
    /\ events < MaxEvents
    /\ cache' = updateCache(key, data)
    /\ events' = events + 1
    /\ lastOp' = Op(op, key, arg)
    /\ UNCHANGED <<pageVars, rendered, now, calls, server, lastFetch>>

addWarehouse(warehouse) ==
    Helper("addWarehouse", "warehouses", warehouse,
           Appended(cache["warehouses"].data, warehouse))

updateWarehouse(id, updates) ==
    Helper("updateWarehouse", "warehouses", Merge([id |-> id], updates),
           Patched(cache["warehouses"].data, id, updates))

removeWarehouse(id) ==
    Helper("removeWarehouse", "warehouses", [id |-> id],
           Removed(cache["warehouses"].data, id))

addLocation(location) ==
    Helper("addLocation", "locations", location,
           Appended(cache["locations"].data, location))

updateLocationCache(location) ==
    Helper("updateLocationCache", "locations", location,
           Replaced(cache["locations"].data, location))

updateProductCache(product) ==
    Helper("updateProductCache", "products", product,
           Replaced(cache["products"].data, product))

addProduct(product) ==
    Helper("addProduct", "products", product,
           Appended(cache["products"].data, product))

removeProduct(id) ==
    Helper("removeProduct", "products", [id |-> id],
           Removed(cache["products"].data, id))

addUser(newUser) ==
    Helper("addUser", "users", newUser, Appended(cache["users"].data, newUser))

updateUser(id, updates) ==
    Helper("updateUser", "users", Merge([id |-> id], updates),
           Patched(cache["users"].data, id, updates))

updateUserCache(updatedUser) ==
    Helper("updateUserCache", "users", updatedUser,
           Replaced(cache["users"].data, updatedUser))

removeUser(id) ==
    Helper("removeUser", "users", [id |-> id], Removed(cache["users"].data, id))

addDocument(type, document) ==
    Helper("addDocument", type, document, Appended(cache[type].data, document))

updateDocument(type, id, updates) ==
    Helper("updateDocument", type, Merge([id |-> id], updates),
           Patched(cache[type].data, id, updates))

removeDocument(type, id) ==
    Helper("removeDocument", type, [id |-> id], Removed(cache[type].data, id))

(* what the pages pass: an entity of the key, or the fields a form edits *)
Updates(key) == {[f \in {Payload(key)} |-> v] : v \in PayloadValues(key)}

----------------------------------------------------------------------------
(* React renders CacheProvider again: the closures handed out from now on   *)
(* read the current state                                                   *)
Render ==
    /\ rendered # cache
    /\ rendered' = cache
    /\ UNCHANGED <<pageVars, cache, now, calls, server, events, lastOp, lastFetch>>

(* Date.now() advances *)
TickSteps == {DOCUMENT_CACHE_DURATION, CACHE_DURATION}

Tick(d) ==
    /\ events < MaxEvents
    /\ now' = now + d
    /\ events' = events + 1
    /\ UNCHANGED <<pageVars, cache, rendered, calls, server, lastOp, lastFetch>>

(* another client changes the backend's list *)
BackendChange(key) ==
    /\ events < MaxEvents
    /\ server[key] = InitialList(key)
    /\ server' = [server EXCEPT ![key] = ChangedList(key)]
    /\ events' = events + 1
    /\ UNCHANGED <<pageVars, cache, rendered, now, calls, lastOp, lastFetch>>

----------------------------------------------------------------------------

(* The products slot: the cache operations the Products page uses *)
Next ==
    \/ \E f \in BOOLEAN : getProducts(f)
    \/ \E c \in 1..Len(calls) : FetchSucceed(c)
    \/ \E c \in 1..Len(calls), e \in Errors : FetchFail(c, e)
    \/ \E c \in 1..Len(calls) : Poll(c)
    \/ invalidateCache("products")
    \/ clearAllCache
    \/ \E p \in Entities("products") : addProduct(p)
    \/ \E p \in Entities("products") : updateProductCache(p)
    \/ \E id \in Ids : removeProduct(id)
    \/ Render
    \/ \E d \in TickSteps : Tick(d)
    \/ BackendChange("products")

Spec == Init /\ [][Next]_vars

(* what a page adds: a new entity, a new document being a DRAFT *)
NewEntity(key, id) == Entity(key, id, IF key \in DocTypes THEN "DRAFT" ELSE "new")

(* the fields a form edits *)
Edit(key) == [f \in {Payload(key)} |-> IF key \in DocTypes THEN "DRAFT" ELSE "new"]

(* The receipts slot: the cache operations the Receipts page uses *)
DocumentsNext ==
    \/ \E s \in StatusFilters, f \in BOOLEAN : getDocuments("receipts", s, f)
    \/ \E c \in 1..Len(calls) : FetchSucceed(c)
    \/ \E c \in 1..Len(calls), e \in Errors : FetchFail(c, e)
    \/ \E c \in 1..Len(calls) : Poll(c)
    \/ invalidateCache("receipts")
    \/ \E id \in Ids : addDocument("receipts", NewEntity("receipts", id))
    \/ \E id \in Ids, u \in Updates("receipts") : updateDocument("receipts", id, u)
    \/ \E id \in Ids : removeDocument("receipts", id)
    \/ Render
    \/ \E d \in TickSteps : Tick(d)
    \/ BackendChange("receipts")

SpecDocuments == Init /\ [][DocumentsNext]_vars

(* Every helper on every slot, each with one entity per id *)
HelpersNext ==
    /\ events < MaxHelperEvents
    /\ \/ getWarehouses(FALSE)
       \/ getLocations(NullId, FALSE)
       \/ getProducts(FALSE)
       \/ getUsers(FALSE)
       \/ \E t \in DocTypes : getDocuments(t, "", FALSE)
       \/ \E id \in Ids : addWarehouse(NewEntity("warehouses", id))
       \/ \E id \in Ids : updateWarehouse(id, Edit("warehouses"))
       \/ \E id \in Ids : removeWarehouse(id)
       \/ \E id \in Ids : addLocation(NewEntity("locations", id))
       \/ \E id \in Ids : updateLocationCache(NewEntity("locations", id))
       \/ \E id \in Ids : updateProductCache(NewEntity("products", id))
       \/ \E id \in Ids : addProduct(NewEntity("products", id))
       \/ \E id \in Ids : removeProduct(id)
       \/ \E id \in Ids : addUser(NewEntity("users", id))
       \/ \E id \in Ids : updateUser(id, Edit("users"))
       \/ \E id \in Ids : updateUserCache(NewEntity("users", id))
       \/ \E id \in Ids : removeUser(id)
       \/ \E t \in DocTypes, id \in Ids : addDocument(t, NewEntity(t, id))
       \/ \E t \in DocTypes, id \in Ids : updateDocument(t, id, Edit(t))
       \/ \E t \in DocTypes, id \in Ids : removeDocument(t, id)
       \/ \E d \in TickSteps : Tick(d)

HelpersSettle ==
    \/ \E c \in 1..Len(calls) : FetchSucceed(c)
    \/ \E c \in 1..Len(calls), e \in Errors : FetchFail(c, e)
    \/ Render

SpecHelpers == Init /\ [][HelpersNext \/ HelpersSettle]_vars

----------------------------------------------------------------------------
(* The pages.  A handler that awaits an api call runs in two steps: up to   *)
(* the await, and from the response on.  Its second step runs the closures  *)
(* of the render the handler was created in, so the getters it calls read   *)
(* the `cache` constant of that render: the request carries it as `closure`. *)

(* events of a run of one page *)
MaxPageEvents == 3

NoEntity == [id |-> NullId]

NewRequest(kind, key, id, arg, statusFilter) ==
    [kind |-> kind, key |-> key, id |-> id, arg |-> arg, pc |-> "sent",
     response |-> NoEntity, error |-> "", closure |-> rendered,
     statusFilter |-> statusFilter, reload |-> 0]

Sent == {r \in 1..Len(requests) : requests[r].pc = "sent"}

(* the entry of a list with this id, or no entity *)
Find(list, id) ==
    IF \E i \in 1..Len(list) : list[i].id = id
    THEN list[CHOOSE i \in 1..Len(list) : list[i].id = id]
    ELSE NoEntity

HasStatus(list, id, status) ==
    \E i \in 1..Len(list) : list[i].id = id /\ list[i].status = status

(* lines 31-35 and 143-145 on the slot a closure holds *)
SlotValid(cached, duration) ==
    /\ cached.data # NULL
    /\ cached.timestamp # NullTimestamp
    /\ now - cached.timestamp < duration

(* the branch a getter called without forceRefresh takes when its closure   *)
(* holds the slot `seen`: getDocuments' own test first, then fetchWithCache *)
ClosureBranch(seen, via) ==
    IF via = "getDocuments" /\ SlotValid(seen, DOCUMENT_CACHE_DURATION) THEN "cached"
    ELSE IF SlotValid(seen, CACHE_DURATION) THEN "cached"
    ELSE IF seen.loading THEN "wait"
    ELSE "fetch"

(* a getter called by the second step of a handler: `closure` is the cache  *)
(* constant of the handler's render, `base` the state after the setCache    *)
(* calls the handler made before it.  Gives the call and the new state.     *)
ClosureCall(closure, base, key, fetchFunction, via, statusFilter, after) ==
    LET seen == closure[key]
        call == [NewCall(key, fetchFunction, NullId, FALSE, via, statusFilter)
                    EXCEPT !.seen = seen, !.slot = base[key], !.after = after]
        branch == ClosureBranch(seen, via)
    IN  IF branch = "cached"
        THEN [call |-> [call EXCEPT !.pc = "resolved",
                                    !.result = Returned(call, seen.data)],
              cache |-> base]
        ELSE IF branch = "wait"
        THEN [call |-> [call EXCEPT !.pc = "waiting"], cache |-> base]
        ELSE [call |-> [call EXCEPT !.pc = "fetching", !.invoked = 1],
              cache |-> [base EXCEPT ![key] = [base[key] EXCEPT !.loading = TRUE]]]

----------------------------------------------------------------------------
(* The backend's document endpoints, spec section 4.2 and 6: a DRAFT can be *)
(* updated and confirmed, a CONFIRMED document neither; any call can fail.  *)

api_failed(r, error) ==
    /\ r \in Sent
    /\ requests' = [requests EXCEPT ![r].pc = "failed", ![r].error = error]
    /\ UNCHANGED <<cache, rendered, now, calls, server, events, lastOp, lastFetch,
                   user, page, auth, search>>

(* PUT /{type}/{id}: answers with the document as updated *)
api_updateDocument(r) ==
    /\ r \in Sent
    /\ requests[r].kind = "updateDocument"
    /\ HasStatus(server[requests[r].key], requests[r].id, "DRAFT")
    /\ requests' = [requests EXCEPT ![r].pc = "ok",
                       ![r].response = Find(server[requests[r].key], requests[r].id)]
    /\ UNCHANGED <<cache, rendered, now, calls, server, events, lastOp, lastFetch,
                   user, page, auth, search>>

(* POST /{type}: answers with the new DRAFT, under an id not in use *)
api_createDocument(r) ==
    LET k == requests[r].key
        free == Ids \ {server[k][i].id : i \in 1..Len(server[k])}
        newDoc == Entity(k, CHOOSE id \in free : \A j \in free : id <= j, "DRAFT")
    IN  /\ r \in Sent
        /\ requests[r].kind = "createDocument"
        /\ free # {}
        /\ server' = [server EXCEPT ![k] = Append(@, newDoc)]
        /\ requests' = [requests EXCEPT ![r].pc = "ok", ![r].response = newDoc]
        /\ UNCHANGED <<cache, rendered, now, calls, events, lastOp, lastFetch,
                       user, page, auth, search>>

(* POST /{type}/{id}/confirm: DRAFT -> CONFIRMED *)
api_confirmDocument(r) ==
    LET k == requests[r].key
        id == requests[r].id
    IN  /\ r \in Sent
        /\ requests[r].kind = "confirmDocument"
        /\ HasStatus(server[k], id, "DRAFT")
        /\ server' = [server EXCEPT ![k] =
               [i \in 1..Len(server[k]) |->
                   IF server[k][i].id = id
                   THEN [server[k][i] EXCEPT !.status = "CONFIRMED"]
                   ELSE server[k][i]]]
        /\ requests' = [requests EXCEPT ![r].pc = "ok",
                           ![r].response = Entity(k, id, "CONFIRMED")]
        /\ UNCHANGED <<cache, rendered, now, calls, events, lastOp, lastFetch,
                       user, page, auth, search>>

----------------------------------------------------------------------------
(* Receipts.jsx; Deliveries, Transfers (part_001:447-494) and Adjustments   *)
(* are the same page on their own key                                       *)

(* loadData, lines 30-36: getDocuments through the closure of this render *)
ReceiptsLoadData(statusFilter) ==
    /\ events < MaxPageEvents
    /\ getDocuments("receipts", statusFilter, FALSE)

(* loadData, line 37, once Promise.all has resolved: setDocuments(docs) *)
setDocuments(c) ==
    /\ c \in 1..Len(calls)
    /\ calls[c].key = "receipts"
    /\ calls[c].pc = "resolved"
    /\ calls[c].result # NULL
    /\ c \notin page.loaded
    /\ page' = [page EXCEPT !.documents = Val(calls[c].result),
                            !.loaded = @ \cup {c}]
    /\ UNCHANGED <<cache, rendered, now, calls, server, events, lastOp, lastFetch,
                   user, requests, auth, search>>

(* handleSubmit that applies the change to the slot before the api call *)
ReceiptsHandleSubmit_optimistic(id, statusFilter) ==
    /\ events < MaxPageEvents
    /\ id # NullId => HasStatus(page.documents, id, "DRAFT")
    /\ requests' = Append(requests,
                      NewRequest(IF id # NullId THEN "updateDocument" ELSE "createDocument",
                                 "receipts", id, NoEntity, statusFilter))
    /\ cache' = updateCache("receipts",
                     IF id # NullId
                     THEN Patched(cache["receipts"].data, id, Edit("receipts"))
                     ELSE Appended(cache["receipts"].data, NewEntity("receipts", MaxId)))
    /\ events' = events + 1
    /\ UNCHANGED <<rendered, now, calls, server, lastOp, lastFetch, user, page, auth, search>>

(* handleSubmit up to line 91 or 96: the form of a DRAFT row opened with    *)
(* its Edit button (editingDoc), or the form of a new receipt (no id)       *)
ReceiptsHandleSubmit(id, statusFilter) ==
    /\ events < MaxPageEvents
    /\ id # NullId => HasStatus(page.documents, id, "DRAFT")
    /\ requests' = Append(requests,
                      NewRequest(IF id # NullId THEN "updateDocument" ELSE "createDocument",
                                 "receipts", id, NoEntity, statusFilter))
    /\ events' = events + 1
    /\ UNCHANGED <<cache, rendered, now, calls, server, lastOp, lastFetch, user, page, auth, search>>

(* handleConfirm behind a button shown to every role *)
ReceiptsHandleConfirm_anyRole(id, statusFilter) ==
    /\ events < MaxPageEvents
    /\ HasStatus(page.documents, id, "DRAFT")
    /\ requests' = Append(requests,
                      NewRequest("confirmDocument", "receipts", id, NoEntity, statusFilter))
    /\ events' = events + 1
    /\ UNCHANGED <<cache, rendered, now, calls, server, lastOp, lastFetch, user, page, auth, search>>

(* handleConfirm up to line 112: the Confirm button of a DRAFT row, admins only *)
ReceiptsHandleConfirm(id, statusFilter) ==
    /\ events < MaxPageEvents
    /\ user = "ADMIN"
    /\ HasStatus(page.documents, id, "DRAFT")
    /\ requests' = Append(requests,
                      NewRequest("confirmDocument", "receipts", id, NoEntity, statusFilter))
    /\ events' = events + 1
    /\ UNCHANGED <<cache, rendered, now, calls, server, lastOp, lastFetch, user, page, auth, search>>

(* invalidateCache('receipts'); loadData(), lines 104-105 and 114-115 *)
ReceiptsReload(r, after) ==
    LET k == requests[r].key
        out == ClosureCall(requests[r].closure, [cache EXCEPT ![k] = EmptySlot], k,
                           "getDocuments", "getDocuments", requests[r].statusFilter, after)
    IN  /\ cache' = out.cache
        /\ calls' = Append(calls, out.call)
        /\ requests' = [requests EXCEPT ![r].pc = "done", ![r].reload = Len(calls) + 1]
        /\ lastOp' = [op |-> "getDocuments", key |-> k, arg |-> NoArg,
                      prev |-> [op |-> "invalidateCache", id |-> NullId],
                      n |-> lastOp.n + 2]
        /\ lastFetch' = [lastFetch EXCEPT ![k] = NullTimestamp]
        /\ UNCHANGED <<rendered, now, server, events, user, page, auth, search>>

(* handleSubmit from line 92 or 97 on: the response of api.updateDocument   *)
(* or api.createDocument                                                    *)
ReceiptsSubmitted(r) ==
    /\ r \in 1..Len(requests)
    /\ requests[r].kind \in {"updateDocument", "createDocument"}
    /\ IF requests[r].pc = "ok" /\ requests[r].kind = "createDocument"
       THEN \* lines 97-98
            LET newDoc == requests[r].response
            IN  /\ cache' = updateCache("receipts",
                               Appended(cache["receipts"].data, newDoc))
                /\ page' = [page EXCEPT !.documents = Append(@, newDoc)]
                /\ requests' = [requests EXCEPT ![r].pc = "done"]
                /\ lastOp' = Op("addDocument", "receipts", newDoc)
                /\ UNCHANGED <<rendered, now, calls, server, events, lastFetch, user, auth, search>>
       ELSE IF requests[r].pc = "ok"
       THEN \* lines 92-93
            LET updated == requests[r].response
                id == requests[r].id
            IN  /\ cache' = updateCache("receipts",
                               Patched(cache["receipts"].data, id, updated))
                /\ page' = [page EXCEPT !.documents =
                               [i \in 1..Len(@) |-> IF @[i].id = id THEN updated ELSE @[i]]]
                /\ requests' = [requests EXCEPT ![r].pc = "done"]
                /\ lastOp' = Op("updateDocument", "receipts", updated)
                /\ UNCHANGED <<rendered, now, calls, server, events, lastFetch, user, auth, search>>
       ELSE \* lines 101-105
            /\ requests[r].pc = "failed"
            /\ ReceiptsReload(r, "handleSubmit")

(* handleConfirm from line 113 on: the response of api.confirmDocument *)
ReceiptsConfirmed(r) ==
    /\ r \in 1..Len(requests)
    /\ requests[r].kind = "confirmDocument"
    /\ IF requests[r].pc = "ok"
       THEN \* lines 113-115
            ReceiptsReload(r, "handleConfirm")
       ELSE \* lines 116-118: alert
            /\ requests[r].pc = "failed"
            /\ requests' = [requests EXCEPT ![r].pc = "done"]
            /\ UNCHANGED <<cache, rendered, now, calls, server, events, lastOp,
                           lastFetch, user, page, auth, search>>

ReceiptsNext ==
    \/ \E s \in StatusFilters : ReceiptsLoadData(s)
    \/ \E c \in 1..Len(calls) : Serve(c)
    \/ \E c \in 1..Len(calls) : FetchSucceed(c)
    \/ \E c \in 1..Len(calls) : FetchFail(c, "Failed to fetch")
    \/ \E c \in 1..Len(calls) : setDocuments(c)
    \/ \E id \in Ids \cup {NullId} : ReceiptsHandleSubmit(id, "")
    \/ \E id \in Ids : ReceiptsHandleConfirm(id, "")
    \/ \E r \in 1..Len(requests) : api_updateDocument(r)
    \/ \E r \in 1..Len(requests) : api_createDocument(r)
    \/ \E r \in 1..Len(requests) : api_confirmDocument(r)
    \/ \E r \in 1..Len(requests) : api_failed(r, "Failed to fetch")
    \/ \E r \in 1..Len(requests) : ReceiptsSubmitted(r)
    \/ \E r \in 1..Len(requests) : ReceiptsConfirmed(r)
    \/ Render
    \/ events < MaxPageEvents /\ Tick(CACHE_DURATION)
    \/ events < MaxPageEvents /\ BackendChange("receipts")

SpecReceipts == Init /\ [][ReceiptsNext]_vars

----------------------------------------------------------------------------
(* The backend's product endpoints, spec section 6: DELETE and PUT of an    *)
(* entity that exists; a refusal (the entity is referenced) is api_failed   *)

api_deleteProduct(r) ==
    LET k == requests[r].key
    IN  /\ r \in Sent
        /\ requests[r].kind = "deleteProduct"
        /\ server' = [server EXCEPT ![k] =
                         SelectSeq(@, LAMBDA e : e.id # requests[r].id)]
        /\ requests' = [requests EXCEPT ![r].pc = "ok"]
        /\ UNCHANGED <<cache, rendered, now, calls, events, lastOp, lastFetch,
                       user, page, auth, search>>

api_updateProduct(r) ==
    LET k == requests[r].key
        id == requests[r].id
    IN  /\ r \in Sent
        /\ requests[r].kind = "updateProduct"
        /\ \E i \in 1..Len(server[k]) : server[k][i].id = id
        /\ server' = [server EXCEPT ![k] =
               [i \in 1..Len(server[k]) |->
                   IF server[k][i].id = id THEN Merge(server[k][i], requests[r].arg)
                   ELSE server[k][i]]]
        /\ requests' = [requests EXCEPT ![r].pc = "ok",
                           ![r].response = Merge(Find(server[k], id), requests[r].arg)]
        /\ UNCHANGED <<cache, rendered, now, calls, events, lastOp, lastFetch,
                       user, page, auth, search>>

----------------------------------------------------------------------------
(* Products.jsx; Warehouses.jsx:47-92 and UserManagement (part_001:63-171)  *)
(* handle their key the same way, Locations.jsx:47-78 its updates           *)

(* loadData, lines 34-40: getProducts through the closure of this render *)
ProductsLoadData ==
    /\ events < MaxPageEvents
    /\ getProducts(FALSE)

(* loadData, line 41, once Promise.all has resolved: setProducts(productsData) *)
setProducts(c) ==
    /\ c \in 1..Len(calls)
    /\ calls[c].key = "products"
    /\ calls[c].pc = "resolved"
    /\ calls[c].result # NULL
    /\ c \notin page.loaded
    /\ page' = [page EXCEPT !.products = Val(calls[c].result),
                            !.loaded = @ \cup {c}]
    /\ UNCHANGED <<cache, rendered, now, calls, server, events, lastOp, lastFetch,
                   user, requests, auth, search>>

(* handleDelete up to line 91, on a row of the table: the optimistic update *)
ProductsHandleDelete(id) ==
    /\ events < MaxPageEvents
    /\ \E i \in 1..Len(page.products) : page.products[i].id = id
    /\ cache' = updateCache("products", Removed(cache["products"].data, id))
    /\ page' = [page EXCEPT !.products = SelectSeq(@, LAMBDA e : e.id # id)]
    /\ requests' = Append(requests,
                      NewRequest("deleteProduct", "products", id, NoEntity, ""))
    /\ events' = events + 1
    /\ lastOp' = Op("removeProduct", "products", [id |-> id])
    /\ UNCHANGED <<rendered, now, calls, server, lastFetch, user, auth, search>>

(* handleSubmit up to line 117, on the form of a row (editingProduct): the  *)
(* optimistic update                                                        *)
ProductsHandleSubmit(id, payload) ==
    LET editingProduct == Find(page.products, id)
        updatedProduct == Merge(editingProduct, payload)
    IN  /\ events < MaxPageEvents
        /\ editingProduct # NoEntity
        /\ cache' = updateCache("products",
                                Replaced(cache["products"].data, updatedProduct))
        /\ page' = [page EXCEPT !.products =
                       [i \in 1..Len(@) |-> IF @[i].id = id THEN updatedProduct ELSE @[i]]]
        /\ requests' = Append(requests,
                          NewRequest("updateProduct", "products", id, payload, ""))
        /\ events' = events + 1
        /\ lastOp' = Op("updateProductCache", "products", updatedProduct)
        /\ UNCHANGED <<rendered, now, calls, server, lastFetch, user, auth, search>>

(* the rest of handleDelete and handleSubmit: nothing more when the api     *)
(* call succeeded, loadData() when it threw (lines 93-97 and 127-130)       *)
ProductsSettled(r) ==
    /\ r \in 1..Len(requests)
    /\ requests[r].kind \in {"deleteProduct", "updateProduct"}
    /\ IF requests[r].pc = "ok"
       THEN /\ requests' = [requests EXCEPT ![r].pc = "done"]
            /\ UNCHANGED <<cache, rendered, now, calls, server, events, lastOp,
                           lastFetch, user, page, auth, search>>
       ELSE LET out == ClosureCall(requests[r].closure, cache, "products",
                                   "getProducts", "fetchWithCache", "", requests[r].kind)
            IN  /\ requests[r].pc = "failed"
                /\ cache' = out.cache
                /\ calls' = Append(calls, out.call)
                /\ requests' = [requests EXCEPT ![r].pc = "done",
                                                ![r].reload = Len(calls) + 1]
                /\ lastOp' = Op("fetchWithCache", "products", NoArg)
                /\ UNCHANGED <<rendered, now, server, events, lastFetch, user, page, auth, search>>

ProductsNext ==
    \/ ProductsLoadData
    \/ \E c \in 1..Len(calls) : Serve(c)
    \/ \E c \in 1..Len(calls) : FetchSucceed(c)
    \/ \E c \in 1..Len(calls) : FetchFail(c, "Failed to fetch")
    \/ \E c \in 1..Len(calls) : setProducts(c)
    \/ \E id \in Ids : ProductsHandleDelete(id)
    \/ \E id \in Ids : ProductsHandleSubmit(id, Edit("products"))
    \/ \E r \in 1..Len(requests) : api_deleteProduct(r)
    \/ \E r \in 1..Len(requests) : api_updateProduct(r)
    \/ \E r \in 1..Len(requests) : api_failed(r, "Failed to fetch")
    \/ \E r \in 1..Len(requests) : ProductsSettled(r)
    \/ Render
    \/ events < MaxPageEvents /\ Tick(CACHE_DURATION)
    \/ events < MaxPageEvents /\ BackendChange("products")

SpecProducts == Init /\ [][ProductsNext]_vars

----------------------------------------------------------------------------
(* The products slot over a longer time: loads and optimistic updates of    *)
(* the Products page with the clock free to advance between them            *)

(* the clock's horizon, in freshness windows *)
MaxElapsed == 2

(* Date.now() advances, up to the horizon *)
Elapse(d) ==
    /\ now + d <= 1 + MaxElapsed * CACHE_DURATION
    /\ now' = now + d
    /\ UNCHANGED <<pageVars, cache, rendered, calls, server, events, lastOp, lastFetch>>

StaleNext ==
    \/ getProducts(FALSE)
    \/ \E c \in 1..Len(calls) : FetchSucceed(c)
    \/ \E c \in 1..Len(calls), e \in Errors : FetchFail(c, e)
    \/ \E id \in Ids : updateProductCache(NewEntity("products", id))
    \/ \E id \in Ids : addProduct(NewEntity("products", id))
    \/ \E id \in Ids : removeProduct(id)
    \/ Render
    \/ Elapse(CACHE_DURATION)

SpecStale == Init /\ [][StaleNext]_vars

----------------------------------------------------------------------------
(* Sessions: AuthContext.jsx:32-49 and Layout.handleLogout (part_006:16-19). *)
(* CacheProvider is mounted above the routes (part_000:37-38) and stays     *)
(* mounted from one session to the next.                                    *)

(* login, lines 32-37: setUser(data.user) *)
login(principal) ==
    /\ events < MaxPageEvents
    /\ user = NullUser
    /\ user' = principal
    /\ auth' = [auth EXCEPT !.token = "access_token"]
    /\ events' = events + 1
    /\ UNCHANGED <<cache, rendered, now, calls, server, lastOp, lastFetch, page, requests, search>>

(* handleLogout: logout() is setUser(null), then navigate('/login'); the    *)
(* pages unmount and their lists go with them                               *)
handleLogout ==
    /\ events < MaxPageEvents
    /\ user # NullUser
    /\ user' = NullUser
    /\ auth' = [auth EXCEPT !.token = NoToken]
    /\ page' = EmptyPage
    /\ events' = events + 1
    /\ UNCHANGED <<cache, rendered, now, calls, server, lastOp, lastFetch, requests, search>>

(* the pages are routed under PrivateRoute (part_000:25-33): a getter is     *)
(* called only while a user is signed in                                    *)
SessionNext ==
    \/ user # NullUser /\ events < MaxPageEvents /\ getWarehouses(FALSE)
    \/ user # NullUser /\ events < MaxPageEvents /\ getProducts(FALSE)
    \/ user = "ADMIN" /\ events < MaxPageEvents /\ getUsers(FALSE)
    \/ user # NullUser /\ events < MaxPageEvents
          /\ \E t \in DocTypes : getDocuments(t, "", FALSE)
    \/ \E c \in 1..Len(calls) : FetchSucceed(c)
    \/ \E c \in 1..Len(calls) : FetchFail(c, "Failed to fetch")
    \/ Render
    \/ \E principal \in Principals : login(principal)
    \/ handleLogout

SpecSession == Init /\ [][SessionNext]_vars

----------------------------------------------------------------------------
(* The stock ledger.  The backend computes it (GET /reports/ledger, spec    *)
(* sections 3 and 4.3): entries in movement order, each with its qty_change *)
(* and the running balance, seeded by the opening stock of the scope.       *)

(* movements of one scope *)
MaxMovements == 3

(* requests of the Ledger page in one run *)
MaxLedgerLoads == 2

(* quantities are numeric with two decimals (the forms take steps of 0.01,  *)
(* Receipts.jsx:226); a quantity is held as its number of hundredths       *)
Scale == 100

(* +10, -3 and +5 *)
QtyChanges == {1000, -300, 500}

(* 0 and 5 *)
OpeningStocks == {0, 500}

MovementLists == UNION {[1..n -> QtyChanges] : n \in 0..MaxMovements}

(* a running balance that ignores the opening stock *)
RECURSIVE RunningBalance_noSeed(_, _, _)
RunningBalance_noSeed(opening, qty, i) ==
    IF i = 0 THEN 0 ELSE RunningBalance_noSeed(opening, qty, i - 1) + qty[i]

(* the balance after entry i: the balance after entry i - 1 plus qty[i] *)
RECURSIVE RunningBalance(_, _, _)
RunningBalance(opening, qty, i) ==
    IF i = 0 THEN opening ELSE RunningBalance(opening, qty, i - 1) + qty[i]

LedgerEntries(opening, qty) ==
    [i \in 1..Len(qty) |->
        [id |-> i, qty_change |-> qty[i],
         running_balance |-> RunningBalance(opening, qty, i)]]

(* Ledger.jsx:42-44: loadLedger up to the await; api.getLedger sends the    *)
(* product and, when chosen, the warehouse and the location (part_006:363-366) *)
loadLedger(productId, warehouseId, locationId) ==
    /\ Len(requests) < MaxLedgerLoads
    /\ productId # NullId
    /\ requests' = Append(requests,
           NewRequest("getLedger", "ledger", productId,
                      [id |-> NullId, warehouse_id |-> warehouseId,
                       location_id |-> locationId], ""))
    /\ UNCHANGED <<cache, rendered, now, calls, server, events, lastOp, lastFetch,
                   user, page, auth, search>>

(* the backend answers with the ledger of the scope as it is then *)
api_getLedger(r, opening, qty) ==
    /\ r \in Sent
    /\ requests[r].kind = "getLedger"
    /\ requests' = [requests EXCEPT ![r].pc = "ok",
           ![r].response = [id |-> NullId, opening |-> opening,
                            entries |-> LedgerEntries(opening, qty)]]
    /\ UNCHANGED <<cache, rendered, now, calls, server, events, lastOp, lastFetch,
                   user, page, auth, search>>

(* Ledger.jsx:45: setLedger(data); a failed request leaves the ledger as it is *)
setLedger(r) ==
    /\ r \in 1..Len(requests)
    /\ requests[r].kind = "getLedger"
    /\ requests[r].pc \in {"ok", "failed"}
    /\ page' = IF requests[r].pc = "ok"
               THEN [page EXCEPT !.ledger = requests[r].response.entries]
               ELSE page
    /\ requests' = [requests EXCEPT ![r].pc = "done", ![r].response = NoEntity]
    /\ UNCHANGED <<cache, rendered, now, calls, server, events, lastOp, lastFetch, user, auth, search>>

LedgerNext ==
    \/ \E productId \in Ids, place \in {<<NullId, NullId>>, <<1, 1>>} :
          loadLedger(productId, place[1], place[2])
    \/ \E r \in 1..Len(requests), opening \in OpeningStocks, qty \in MovementLists :
          api_getLedger(r, opening, qty)
    \/ \E r \in 1..Len(requests) : api_failed(r, "Failed to fetch ledger")
    \/ \E r \in 1..Len(requests) : setLedger(r)

SpecLedger == Init /\ [][LedgerNext]_vars

(* The rows of the ledger table, Ledger.jsx:113-138 *)

(* +10, +2.5, -0.4 and -3 *)
DecimalQtyChanges == {1000, 250, -40, -300}

(* the ledgers of up to two such movements that never take more than the *)
(* scope holds                                                           *)
InStock(opening) ==
    {qty \in UNION {[1..n -> DecimalQtyChanges] : n \in 0..2} :
        \A i \in 1..Len(qty) : RunningBalance(opening, qty, i) >= 0}

(* Number.prototype.toFixed(0) of x hundredths: the integer nearest to x, *)
(* the one further from zero of two that are equally near; the result is  *)
(* the number its digits stand for                                        *)
toFixed(x) ==
    IF x >= 0 THEN (x + Scale \div 2) \div Scale
    ELSE -((-x + Scale \div 2) \div Scale)

(* lines 114-136: the cells In, Out and Balance of the row of an entry; a *)
(* cell without quantity shows '-' (lines 128, 131), NULL here; Math.abs  *)
(* is taken of a negative number only                                     *)
LedgerRow(entry) ==
    LET qtyChange == entry.qty_change
        isPositive == qtyChange >= 0
    IN  [In |-> IF isPositive THEN Some(toFixed(qtyChange)) ELSE NULL,
         Out |-> IF ~isPositive THEN Some(toFixed(-qtyChange)) ELSE NULL,
         Balance |-> Some(toFixed(entry.running_balance))]

(* the Ledger page with quantities that are not whole numbers *)
LedgerRowsNext ==
    \/ \E productId \in Ids, place \in {<<NullId, NullId>>, <<1, 1>>} :
          loadLedger(productId, place[1], place[2])
    \/ \E r \in 1..Len(requests), opening \in OpeningStocks :
          \E qty \in InStock(opening) : api_getLedger(r, opening, qty)
    \/ \E r \in 1..Len(requests) : api_failed(r, "Failed to fetch ledger")
    \/ \E r \in 1..Len(requests) : setLedger(r)

SpecLedgerRows == Init /\ [][LedgerRowsNext]_vars

----------------------------------------------------------------------------
(* updateCache called with either kind of updater, CacheContext.jsx:87-96  *)

(* the updaters: the functions the helpers pass (lines 165-233) and plain   *)
(* values, a list or null                                                   *)
Updaters(key) ==
    {[function |-> TRUE, body |-> b, id |-> i, entity |-> NewEntity(key, i), value |-> NULL] :
        b \in {"add", "replace", "remove"}, i \in Ids}
    \cup
    {[function |-> FALSE, body |-> "", id |-> NullId, entity |-> NoEntity, value |-> v] :
        v \in {NULL, Some(<<>>)} \cup {Some(<<NewEntity(key, i)>>) : i \in Ids}}

(* updater(current) for a function *)
Call(updater, current) ==
    CASE updater.body = "add" -> Appended(current, updater.entity)
      [] updater.body = "replace" -> Replaced(current, updater.entity)
      [] updater.body = "remove" -> Removed(current, updater.id)

(* line 91: typeof updater === 'function' ? updater(prev[key].data) : updater *)
Updated(updater, current) ==
    IF updater.function THEN Call(updater, current) ELSE updater.value

updateCacheCall(key, updater) ==
    /\ events < MaxEvents
    /\ cache' = updateCache(key, Updated(updater, cache[key].data))
    /\ events' = events + 1
    /\ lastOp' = Op("updateCache", key, updater)
    /\ UNCHANGED <<pageVars, rendered, now, calls, server, lastFetch>>

UpdateCacheKeys == {"products", "warehouses"}

UpdateCacheNext ==
    \/ getProducts(FALSE)
    \/ getWarehouses(FALSE)
    \/ \E c \in 1..Len(calls) : FetchSucceed(c)
    \/ \E c \in 1..Len(calls), e \in Errors : FetchFail(c, e)
    \/ \E k \in UpdateCacheKeys : \E u \in Updaters(k) : updateCacheCall(k, u)
    \/ \E id \in Ids : addProduct(NewEntity("products", id))
    \/ \E id \in Ids : removeWarehouse(id)
    \/ Render
    \/ Tick(CACHE_DURATION)

SpecUpdateCache == Init /\ [][UpdateCacheNext]_vars

----------------------------------------------------------------------------
(* Lists of several entries: the helpers of the products slot (update by    *)
(* replacement) and of the receipts slot (update by merging fields), called *)
(* one after another on lists that were fetched or built by earlier calls   *)
ListsNext ==
    \/ getProducts(FALSE)
    \/ getDocuments("receipts", "", FALSE)
    \/ \E c \in 1..Len(calls) : FetchSucceed(c)
    \/ \E c \in 1..Len(calls), e \in Errors : FetchFail(c, e)
    \/ \E p \in Entities("products") : addProduct(p)
    \/ \E p \in Entities("products") : updateProductCache(p)
    \/ \E id \in Ids : removeProduct(id)
    \/ \E d \in Entities("receipts") : addDocument("receipts", d)
    \/ \E id \in Ids, u \in Updates("receipts") : updateDocument("receipts", id, u)
    \/ \E id \in Ids : removeDocument("receipts", id)
    \/ Render

SpecLists == Init /\ [][ListsNext]_vars

----------------------------------------------------------------------------
(* Roles.  AuthContext.jsx:52-54 and the buttons of a document row,         *)
(* Receipts.jsx:169-180 (Transfers: part_001:507)                           *)

isAdmin == user = "ADMIN"

canConfirm == isAdmin

(* the buttons of a row: Edit for a DRAFT, Confirm for a DRAFT shown to an  *)
(* admin                                                                    *)
RowActions(doc) ==
    (IF doc.status = "DRAFT" THEN {"edit"} ELSE {})
    \cup (IF doc.status = "DRAFT" /\ isAdmin THEN {"confirm"} ELSE {})

(* the application before anybody has signed in *)
SignedOut ==
    /\ cache = [k \in Keys |-> EmptySlot]
    /\ rendered = [k \in Keys |-> EmptySlot]
    /\ now = 1
    /\ calls = <<>>
    /\ server = [k \in Keys |-> InitialList(k)]
    /\ events = 0
    /\ lastOp = [op |-> "", key |-> "", arg |-> NoArg,
                 prev |-> [op |-> "", id |-> NullId], n |-> 0]
    /\ lastFetch = [k \in Keys |-> NullTimestamp]
    /\ user = NullUser
    /\ auth = [token |-> NoToken, loading |-> FALSE, getMe |-> "none", login |-> NullUser]
    /\ page = EmptyPage
    /\ requests = <<>>
    /\ search = EmptySearch

(* a principal signs in and works on the Receipts page *)
RolesNext ==
    \/ \E principal \in Principals : login(principal)
    \/ user # NullUser /\ ReceiptsLoadData("")
    \/ \E c \in 1..Len(calls) : FetchSucceed(c)
    \/ \E c \in 1..Len(calls) : FetchFail(c, "Failed to fetch")
    \/ \E c \in 1..Len(calls) : setDocuments(c)
    \/ user # NullUser /\ \E id \in Ids \cup {NullId} : ReceiptsHandleSubmit(id, "")
    \/ user # NullUser /\ \E id \in Ids : ReceiptsHandleConfirm(id, "")
    \/ \E r \in 1..Len(requests) : api_updateDocument(r)
    \/ \E r \in 1..Len(requests) : api_createDocument(r)
    \/ \E r \in 1..Len(requests) : api_confirmDocument(r)
    \/ \E r \in 1..Len(requests) : api_failed(r, "Failed to fetch")
    \/ \E r \in 1..Len(requests) : ReceiptsSubmitted(r)
    \/ \E r \in 1..Len(requests) : ReceiptsConfirmed(r)
    \/ Render
    \/ events < MaxPageEvents /\ BackendChange("receipts")

SpecRoles == SignedOut /\ [][RolesNext]_vars

----------------------------------------------------------------------------
(* The locations slot: the Locations page reads it per warehouse            *)
(* (Locations.jsx:30-33), the other pages without a filter                  *)
(* (Receipts.jsx:34, Products.jsx:39, Ledger.jsx:35)                        *)
LocationsNext ==
    \/ \E warehouseId \in Ids \cup {NullId} : getLocations(warehouseId, FALSE)
    \/ \E c \in 1..Len(calls) : FetchSucceed(c)
    \/ \E c \in 1..Len(calls), e \in Errors : FetchFail(c, e)
    \/ Render
    \/ \E d \in TickSteps : Tick(d)
    \/ BackendChange("locations")

SpecLocations == Init /\ [][LocationsNext]_vars

----------------------------------------------------------------------------
(* Warehouses.jsx *)

(* the names the provider hands out, CacheContext.jsx:237-277 *)
CacheProviderValue ==
    {"getWarehouses", "getLocations", "getProducts", "getUsers", "getDocuments",
     "invalidateCache", "clearAllCache", "isCacheValid",
     "addWarehouse", "updateWarehouse", "removeWarehouse",
     "addLocation", "updateLocationCache", "updateProductCache", "addProduct",
     "removeProduct", "addUser", "updateUser", "updateUserCache", "removeUser",
     "addDocument", "updateDocument", "removeDocument", "cache"}

(* DELETE /warehouses/{id} *)
api_deleteWarehouse(r) ==
    LET k == requests[r].key
    IN  /\ r \in Sent
        /\ requests[r].kind = "deleteWarehouse"
        /\ server' = [server EXCEPT ![k] =
                         SelectSeq(@, LAMBDA e : e.id # requests[r].id)]
        /\ requests' = [requests EXCEPT ![r].pc = "ok"]
        /\ UNCHANGED <<cache, rendered, now, calls, events, lastOp, lastFetch,
                       user, page, auth, search>>

(* loadData, lines 21-25: getWarehouses through the closure of this render *)
WarehousesLoadData ==
    /\ events < MaxPageEvents
    /\ getWarehouses(FALSE)

(* loadData, line 26: setWarehouses(data) *)
setWarehouses(c) ==
    /\ c \in 1..Len(calls)
    /\ calls[c].key = "warehouses"
    /\ calls[c].pc = "resolved"
    /\ calls[c].result # NULL
    /\ c \notin page.loaded
    /\ page' = [page EXCEPT !.warehouses = Val(calls[c].result),
                            !.loaded = @ \cup {c}]
    /\ UNCHANGED <<cache, rendered, now, calls, server, events, lastOp, lastFetch,
                   user, requests, auth, search>>

(* handleSubmit of the form of a row (editingWarehouse), lines 47-57 and    *)
(* 65-69.  updateWarehouseCache is what useCache() holds under that name    *)
(* (line 9): calling it when the provider hands out no such name throws a   *)
(* TypeError inside the try block, and the catch block runs loadData()      *)
WarehousesHandleSubmit(id, formData) ==
    LET editingWarehouse == Find(page.warehouses, id)
        updatedWarehouse == Merge(editingWarehouse, formData)
    IN  /\ events < MaxPageEvents
        /\ editingWarehouse # NoEntity
        /\ IF "updateWarehouseCache" \in CacheProviderValue
           THEN \* lines 51-57
                /\ cache' = updateCache("warehouses",
                               Replaced(cache["warehouses"].data, updatedWarehouse))
                /\ page' = [page EXCEPT !.warehouses =
                               [i \in 1..Len(@) |->
                                   IF @[i].id = id THEN updatedWarehouse ELSE @[i]]]
                /\ requests' = Append(requests,
                       NewRequest("updateWarehouse", "warehouses", id, formData, ""))
                /\ events' = events + 1
                /\ lastOp' = Op("updateWarehouseCache", "warehouses", updatedWarehouse)
                /\ UNCHANGED <<rendered, now, calls, server, lastFetch, user, auth, search>>
           ELSE \* lines 65-69
                getWarehouses(FALSE)

(* handleDelete up to line 85: the optimistic update *)
WarehousesHandleDelete(id) ==
    /\ events < MaxPageEvents
    /\ \E i \in 1..Len(page.warehouses) : page.warehouses[i].id = id
    /\ cache' = updateCache("warehouses", Removed(cache["warehouses"].data, id))
    /\ page' = [page EXCEPT !.warehouses = SelectSeq(@, LAMBDA e : e.id # id)]
    /\ requests' = Append(requests,
                      NewRequest("deleteWarehouse", "warehouses", id, NoEntity, ""))
    /\ events' = events + 1
    /\ lastOp' = Op("removeWarehouse", "warehouses", [id |-> id])
    /\ UNCHANGED <<rendered, now, calls, server, lastFetch, user, auth, search>>

(* the rest of handleDelete: nothing more when the api call succeeded,      *)
(* loadData() when it threw (lines 86-91)                                   *)
WarehousesSettled(r) ==
    /\ r \in 1..Len(requests)
    /\ requests[r].kind = "deleteWarehouse"
    /\ IF requests[r].pc = "ok"
       THEN /\ requests' = [requests EXCEPT ![r].pc = "done"]
            /\ UNCHANGED <<cache, rendered, now, calls, server, events, lastOp,
                           lastFetch, user, page, auth, search>>
       ELSE LET out == ClosureCall(requests[r].closure, cache, "warehouses",
                                   "getWarehouses", "fetchWithCache", "", requests[r].kind)
            IN  /\ requests[r].pc = "failed"
                /\ cache' = out.cache
                /\ calls' = Append(calls, out.call)
                /\ requests' = [requests EXCEPT ![r].pc = "done",
                                                ![r].reload = Len(calls) + 1]
                /\ lastOp' = Op("fetchWithCache", "warehouses", NoArg)
                /\ UNCHANGED <<rendered, now, server, events, lastFetch, user, page, auth, search>>

WarehousesNext ==
    \/ WarehousesLoadData
    \/ \E c \in 1..Len(calls) : FetchSucceed(c)
    \/ \E c \in 1..Len(calls) : FetchFail(c, "Failed to fetch")
    \/ \E c \in 1..Len(calls) : setWarehouses(c)
    \/ \E id \in Ids : WarehousesHandleSubmit(id, Edit("warehouses"))
    \/ \E id \in Ids : WarehousesHandleDelete(id)
    \/ \E r \in 1..Len(requests) : api_deleteWarehouse(r)
    \/ \E r \in 1..Len(requests) : api_failed(r, "Failed to delete warehouse")
    \/ \E r \in 1..Len(requests) : WarehousesSettled(r)
    \/ Render
    \/ events < MaxPageEvents /\ Tick(CACHE_DURATION)
    \/ events < MaxPageEvents /\ BackendChange("warehouses")

SpecWarehouses == Init /\ [][WarehousesNext]_vars

----------------------------------------------------------------------------
(* Two slots side by side: fetches, helpers and invalidations of the        *)
(* products and the warehouses slot in any order                            *)
TwoKeys == {"products", "warehouses"}

KeysNext ==
    \/ getProducts(FALSE)
    \/ getWarehouses(FALSE)
    \/ \E c \in 1..Len(calls) : FetchSucceed(c)
    \/ \E c \in 1..Len(calls), e \in Errors : FetchFail(c, e)
    \/ \E k \in TwoKeys : invalidateCache(k)
    \/ \E id \in Ids : addProduct(NewEntity("products", id))
    \/ \E id \in Ids : updateProductCache(NewEntity("products", id))
    \/ \E id \in Ids : addWarehouse(NewEntity("warehouses", id))
    \/ \E id \in Ids : updateWarehouse(id, Edit("warehouses"))
    \/ Render

SpecKeys == Init /\ [][KeysNext]_vars

----------------------------------------------------------------------------
(* The session, AuthContext.jsx:14-49 *)

(* the application as it is loaded, with or without a token in localStorage *)
Startup ==
    /\ cache = [k \in Keys |-> EmptySlot]
    /\ rendered = [k \in Keys |-> EmptySlot]
    /\ now = 1
    /\ calls = <<>>
    /\ server = [k \in Keys |-> InitialList(k)]
    /\ events = 0
    /\ lastOp = [op |-> "", key |-> "", arg |-> NoArg,
                 prev |-> [op |-> "", id |-> NullId], n |-> 0]
    /\ lastFetch = [k \in Keys |-> NullTimestamp]
    /\ user = NullUser
    /\ auth \in {[token |-> t, loading |-> TRUE, getMe |-> "none", login |-> NullUser] :
                    t \in {NoToken, "stored"}}
    /\ page = EmptyPage
    /\ requests = <<>>
    /\ search = EmptySearch

(* the effect of AuthProvider, lines 18-30, up to the request *)
AuthProviderEffect ==
    /\ auth.getMe = "none"
    /\ auth.loading
    /\ auth' = IF auth.token # NoToken
               THEN [auth EXCEPT !.getMe = "sent"]
               ELSE [auth EXCEPT !.getMe = "skipped", !.loading = FALSE]
    /\ UNCHANGED <<cache, rendered, now, calls, server, events, lastOp, lastFetch,
                   user, page, requests, search>>

(* api.getMe() resolved: .then(setUser), .finally(() => setLoading(false)) *)
getMeResolved(me) ==
    /\ auth.getMe = "sent"
    /\ user' = me
    /\ auth' = [auth EXCEPT !.getMe = "done", !.loading = FALSE]
    /\ UNCHANGED <<cache, rendered, now, calls, server, events, lastOp, lastFetch,
                   page, requests, search>>

(* api.getMe() rejected: .catch(() => localStorage.removeItem('token')) *)
getMeRejected ==
    /\ auth.getMe = "sent"
    /\ auth' = [auth EXCEPT !.getMe = "done", !.loading = FALSE, !.token = NoToken]
    /\ UNCHANGED <<cache, rendered, now, calls, server, events, lastOp, lastFetch,
                   user, page, requests, search>>

(* login up to its await, lines 32-33, called once the provider's effect    *)
(* has run; /login is routed outside PrivateRoute (part_000:41)             *)
loginCall(principal) ==
    /\ events < MaxPageEvents
    /\ auth.getMe # "none"
    /\ auth.login = NullUser
    /\ auth' = [auth EXCEPT !.login = principal]
    /\ events' = events + 1
    /\ UNCHANGED <<cache, rendered, now, calls, server, lastOp, lastFetch,
                   user, page, requests, search>>

(* login after api.login resolved, lines 34-36 *)
loginResolved ==
    /\ auth.login # NullUser
    /\ user' = auth.login
    /\ auth' = [auth EXCEPT !.login = NullUser, !.token = "access_token"]
    /\ UNCHANGED <<cache, rendered, now, calls, server, events, lastOp, lastFetch,
                   page, requests, search>>

(* api.login threw ('Login failed'): login throws *)
loginRejected ==
    /\ auth.login # NullUser
    /\ auth' = [auth EXCEPT !.login = NullUser]
    /\ UNCHANGED <<cache, rendered, now, calls, server, events, lastOp, lastFetch,
                   user, page, requests, search>>

(* Layout, with its Logout button, and the pages are rendered under         *)
(* PrivateRoute: once loading is false and a user is set (part_000:25-33)   *)
AuthNext ==
    \/ AuthProviderEffect
    \/ \E me \in Principals : getMeResolved(me)
    \/ getMeRejected
    \/ \E principal \in Principals : loginCall(principal)
    \/ loginResolved
    \/ loginRejected
    \/ ~auth.loading /\ handleLogout
    \/ ~auth.loading /\ user # NullUser /\ events < MaxPageEvents /\ getProducts(FALSE)
    \/ \E c \in 1..Len(calls) : FetchSucceed(c)
    \/ Render

SpecAuth == Startup /\ [][AuthNext]_vars

----------------------------------------------------------------------------
(* The search box, SearchBar.jsx:18-60 *)

(* query changes in one run *)
MaxQueryChanges == 3

(* characters of a query *)
MaxQueryLen == 3

(* steps of the clock while the search box is used *)
MaxSearchTicks == 7

(* line 59: setTimeout(fetchSuggestions, 300) *)
DEBOUNCE_MS == 300

(* line 42: query.trim().length < 2 *)
MIN_QUERY_LENGTH == 2

(* milliseconds between two looks at the clock *)
SearchTick == 100

(* a query is a sequence of characters, a letter or a blank *)
Queries == UNION {[1..n -> {"a", " "}] : n \in 0..MaxQueryLen}

RECURSIVE trimStart(_)
trimStart(q) == IF q # <<>> /\ Head(q) = " " THEN trimStart(Tail(q)) ELSE q

RECURSIVE trimEnd(_)
trimEnd(q) ==
    IF q # <<>> /\ q[Len(q)] = " " THEN trimEnd(SubSeq(q, 1, Len(q) - 1)) ELSE q

(* String.prototype.trim *)
trim(q) == trimEnd(trimStart(q))

(* the functions of the api object, part_006:120-465 *)
ApiMethods ==
    {"login", "signup", "getMe", "getWarehouses", "createWarehouse", "updateWarehouse",
     "deleteWarehouse", "getLocations", "createLocation", "updateLocation",
     "getProducts", "getProduct", "createProduct", "updateProduct", "deleteProduct",
     "getDocuments", "getDocument", "createDocument", "updateDocument",
     "confirmDocument", "getStock", "getMovements", "getLowStock", "getLedger",
     "getDashboardSummary", "getRiskAlerts", "searchSuggestions", "getUsers",
     "createUser", "updateUser", "deleteUser", "approveUser", "disapproveUser"}

(* the effect of lines 40-60 for a query: the clean-up of the effect before *)
(* it clears that effect's timer, then a new timer is set                   *)
DebounceEffect(q) ==
    [search EXCEPT
        !.query = q,
        !.timers = {t \in @ : t.id # search.debounceTimer}
                      \cup {[id |-> search.nextTimer, due |-> now + DEBOUNCE_MS,
                             query |-> q]},
        !.debounceTimer = search.nextTimer,
        !.nextTimer = @ + 1,
        !.changedAt = now]

(* the component is mounted with the query '' and its effect runs *)
SearchBarMount ==
    /\ search.nextTimer = 1
    /\ search' = DebounceEffect(<<>>)
    /\ UNCHANGED <<cache, rendered, now, calls, server, events, lastOp, lastFetch,
                   user, page, requests, auth>>

(* setQuery without the clean-up of the effect before *)
setQuery_noCleanup(q) ==
    /\ search.nextTimer > 1
    /\ search.nextTimer <= MaxQueryChanges + 1
    /\ q # search.query
    /\ search' = [DebounceEffect(q) EXCEPT
                     !.timers = search.timers
                        \cup {[id |-> search.nextTimer, due |-> now + DEBOUNCE_MS,
                               query |-> q]}]
    /\ UNCHANGED <<cache, rendered, now, calls, server, events, lastOp, lastFetch,
                   user, page, requests, auth>>

(* line 181: onChange sets the query; the effect runs again as the query    *)
(* differs (line 60)                                                        *)
setQuery(q) ==
    /\ search.nextTimer > 1
    /\ search.nextTimer <= MaxQueryChanges + 1
    /\ q # search.query
    /\ search' = DebounceEffect(q)
    /\ UNCHANGED <<cache, rendered, now, calls, server, events, lastOp, lastFetch,
                   user, page, requests, auth>>

(* a timer fires, at its time or later: fetchSuggestions of the render that *)
(* set it, lines 41-56.  api.smartSearch(query) is a call of what the api   *)
(* object holds under that name: when it holds nothing the call throws a    *)
(* TypeError inside the try block and the catch block clears the list       *)
fetchSuggestions(t) ==
    /\ t \in search.timers
    /\ now >= t.due
    /\ search' =
          IF Len(trim(t.query)) < MIN_QUERY_LENGTH
          THEN \* lines 42-46
               [search EXCEPT !.timers = @ \ {t}, !.suggestions = <<>>,
                              !.showSuggestions = FALSE]
          ELSE LET call == [query |-> t.query, at |-> now,
                            since |-> search.changedAt, current |-> search.query]
               IN  IF "smartSearch" \in ApiMethods
                   THEN \* line 49
                        [search EXCEPT !.timers = @ \ {t},
                                       !.called = Append(@, call),
                                       !.requests = Append(@, call)]
                   ELSE \* lines 52-55
                        [search EXCEPT !.timers = @ \ {t},
                                       !.called = Append(@, call),
                                       !.suggestions = <<>>]
    /\ UNCHANGED <<cache, rendered, now, calls, server, events, lastOp, lastFetch,
                   user, page, requests, auth>>

SearchElapse ==
    /\ now + SearchTick <= 1 + MaxSearchTicks * SearchTick
    /\ now' = now + SearchTick
    /\ UNCHANGED <<cache, rendered, calls, server, events, lastOp, lastFetch,
                   user, page, requests, auth, search>>

SearchNext ==
    \/ SearchBarMount
    \/ \E q \in Queries : setQuery(q)
    \/ \E t \in search.timers : fetchSuggestions(t)
    \/ SearchElapse

SpecSearch == Init /\ [][SearchNext]_vars

----------------------------------------------------------------------------
(* Shorthands for the claims *)

Calls == 1..Len(calls)

(* c2 was issued while c1, a call on the same key, was not settled *)
Concurrent(c1, c2) ==
    /\ c1 < c2
    /\ calls[c1].key = calls[c2].key
    /\ c1 \in calls[c2].pending

ProductsData == cache["products"].data

----------------------------------------------------------------------------
(* C1: of two calls without forceRefresh issued for the same key before     *)
(* either settles, the first on an empty or stale slot, only the first      *)
(* invokes fetchFunction, and when both have resolved they hold one value.  *)
C1_ConcurrentCallsShareOneFetch ==
    \A c1, c2 \in Calls :
        ( /\ Concurrent(c1, c2)
          /\ ~calls[c1].forceRefresh /\ ~calls[c2].forceRefresh
          /\ calls[c1].invoked = 1 )
        => /\ calls[c2].invoked = 0
           /\ ( calls[c1].pc = "resolved" /\ calls[c2].pc = "resolved"
                => calls[c1].result = calls[c2].result )

(* C2: for every key at most one fetchFunction invocation is outstanding. *)
C2_AtMostOneFetchInFlight ==
    \A k \in Keys : Cardinality(Outstanding(k)) <= 1

(* C3: the first fetchWithCache call on k after invalidateCache(k), made    *)
(* without forceRefresh and with no call on k in flight, invokes            *)
(* fetchFunction.                                                           *)
C3_InvalidationForcesRefetch ==
    \A c \in Calls :
        ( /\ calls[c].after = "invalidateCache"
          /\ calls[c].pending = {}
          /\ ~calls[c].forceRefresh )
        => calls[c].invoked = 1

(* C4: a call without forceRefresh on a master-data key, issued with no     *)
(* call in flight, after a fetch of the key resolved less than              *)
(* CACHE_DURATION before and with no invalidation since, invokes nothing    *)
(* and returns the slot's data at once.                                     *)
C4_SecondCallServedFromCache ==
    \A c \in Calls :
        ( /\ calls[c].key \in MasterKeys
          /\ ~calls[c].forceRefresh
          /\ calls[c].pending = {}
          /\ calls[c].lastFetch # NullTimestamp
          /\ calls[c].issued - calls[c].lastFetch < CACHE_DURATION )
        => /\ calls[c].invoked = 0
           /\ calls[c].pc = "resolved"
           /\ calls[c].result = calls[c].slot.data

(* C5 as stated: every call with forceRefresh invokes fetchFunction. *)
C5_ForceAlwaysFetches ==
    \A c \in Calls : calls[c].forceRefresh => calls[c].invoked = 1

(* C5, amended: a call with forceRefresh invokes fetchFunction exactly when *)
(* the slot it reads is not loading, whether that slot is empty, fresh or   *)
(* stale; when it is loading the call waits and invokes nothing.            *)
C5_ForceFetchesUnlessLoading ==
    \A c \in Calls :
        calls[c].forceRefresh =>
            /\ ~calls[c].seen.loading => calls[c].invoked = 1
            /\ calls[c].seen.loading => calls[c].invoked = 0 /\ calls[c].pc = "waiting"

(* a forced call was made on a slot holding fresh data, and fetched *)
C5_Witness ==
    \E c \in Calls :
        /\ calls[c].forceRefresh
        /\ calls[c].seen.data # NULL
        /\ calls[c].issued - calls[c].seen.timestamp < CACHE_DURATION
        /\ calls[c].invoked = 1

(* C6: the step in which fetchFunction fails sets the slot's loading to     *)
(* false, leaves its data and timestamp as they are, and rejects the call   *)
(* with the failure fetchFunction threw; the step that started the fetch    *)
(* changed loading alone; a rejected call does nothing more: no retry.      *)
C6_FailureKeepsData ==
    [][\A c \in 1..Len(calls') :
          LET k == calls'[c].key
          IN  /\ ( c \in Calls /\ calls[c].pc = "fetching" /\ calls'[c].pc = "rejected" )
                 => /\ cache'[k] = [cache[k] EXCEPT !.loading = FALSE]
                    /\ calls'[c].error = lastOp'.arg.error
                    /\ calls'[c].invoked = 1
                    /\ \A j \in Keys \ {k} : cache'[j] = cache[j]
              /\ ( c \notin Calls /\ calls'[c].pc = "fetching" )
                 => /\ cache'[k] = [cache[k] EXCEPT !.loading = TRUE]
                    /\ calls'[c].invoked = 1
              /\ ( c \in Calls /\ calls[c].pc = "rejected" )
                 => calls'[c] = calls[c]
      ]_vars

(* a fetch failed on a slot that held data, and the data is still there *)
C6_Witness ==
    \E c \in Calls :
        /\ calls[c].pc = "rejected"
        /\ calls[c].slot.data # NULL
        /\ lastOp.op = "FetchFail"
        /\ cache[calls[c].key].data = calls[c].slot.data
        /\ cache[calls[c].key].timestamp = calls[c].slot.timestamp

(* C7: a run of the polling callback of a waiting call, once a fetch of the *)
(* key has succeeded and the slot's loading is false, resolves the call to  *)
(* the slot's data; a waiting call never invokes fetchFunction.             *)
C7_WaiterResolves ==
    [][\A c \in Calls :
          LET k == calls[c].key
          IN  ( /\ calls[c].pc = "waiting"
                /\ calls'[c].polls = calls[c].polls + 1
                /\ lastFetch[k] # NullTimestamp
                /\ ~cache[k].loading )
              => /\ calls'[c].pc = "resolved"
                 /\ calls'[c].result = cache[k].data
                 /\ calls'[c].invoked = 0
      ]_vars

(* C9: after addProduct(p) the products slot holds a sequence containing p; *)
(* removeProduct(p.id) right after it leaves no entry with that id and      *)
(* keeps every other entry, in order.                                       *)
C9_AddThenRemove ==
    [][( lastOp'.n = lastOp.n + 1 /\ lastOp'.key = "products" ) =>
          /\ lastOp'.op = "addProduct"
             => /\ ProductsData' # NULL
                /\ lastOp'.arg \in Range(Val(ProductsData'))
          /\ ( /\ lastOp'.op = "removeProduct"
               /\ lastOp.op = "addProduct"
               /\ lastOp.arg.id = lastOp'.arg.id )
             => /\ ProductsData' # NULL
                /\ \A e \in Range(Val(ProductsData')) : e.id # lastOp'.arg.id
                /\ Val(ProductsData') =
                     SelectSeq(Val(ProductsData), LAMBDA e : e.id # lastOp'.arg.id)
      ]_vars

(* a product was added to a fetched list and removed again; the fetched     *)
(* entries remain                                                           *)
C9_Witness ==
    /\ lastOp.op = "removeProduct"
    /\ lastOp.prev.op = "addProduct"
    /\ lastOp.prev.id = lastOp.arg.id
    /\ ProductsData # NULL
    /\ Len(Val(ProductsData)) >= 1

----------------------------------------------------------------------------
(* C8: a call of getDocuments without forceRefresh that reads an up-to-date *)
(* slot, not loading, whose data is DOCUMENT_CACHE_DURATION old or older    *)
(* invokes fetchFunction; so does a master-data getter whose slot's data is *)
(* CACHE_DURATION old or older.                                             *)
C8_FreshnessWindows ==
    \A c \in Calls :
        ( /\ ~calls[c].forceRefresh
          /\ calls[c].seen = calls[c].slot
          /\ calls[c].slot.data # NULL
          /\ ~calls[c].slot.loading
          /\ calls[c].issued - calls[c].slot.timestamp >=
                IF calls[c].via = "getDocuments" THEN DOCUMENT_CACHE_DURATION
                ELSE CACHE_DURATION )
        => calls[c].invoked = 1

----------------------------------------------------------------------------
AddOps == {"addWarehouse", "addLocation", "addProduct", "addUser", "addDocument"}

UpdateOps == {"updateWarehouse", "updateLocationCache", "updateProductCache",
              "updateUser", "updateUserCache", "updateDocument"}

RemoveOps == {"removeWarehouse", "removeProduct", "removeUser", "removeDocument"}

HelperOps == AddOps \cup UpdateOps \cup RemoveOps

(* a step of one of the fifteen helpers *)
HelperStep == lastOp'.n = lastOp.n + 1 /\ lastOp'.op \in HelperOps

(* C10 as stated: a helper called on a slot whose data is null changes      *)
(* nothing in the slot.                                                     *)
C10_HelpersNoOpOnNull ==
    [][( HelperStep /\ cache[lastOp'.key].data = NULL )
          => cache'[lastOp'.key] = cache[lastOp'.key]
      ]_vars

(* C10, amended: on a slot whose data is null an update or remove helper    *)
(* leaves the data null and an add helper makes it the one-entry sequence   *)
(* of the new entity; either way the timestamp becomes the current time and *)
(* loading becomes false, and no other slot changes.                        *)
C10_HelpersOnNull ==
    [][( HelperStep /\ cache[lastOp'.key].data = NULL ) =>
          LET k == lastOp'.key
          IN  /\ cache'[k].data =
                    IF lastOp'.op \in AddOps THEN Some(<<lastOp'.arg>>) ELSE NULL
              /\ cache'[k].timestamp = now
              /\ cache'[k].loading = FALSE
              /\ \A j \in Keys \ {k} : cache'[j] = cache[j]
      ]_vars

(* an update or remove helper ran on a null slot whose fetch is in flight:  *)
(* the data is still null, the timestamp is set and loading is cleared      *)
C10_Witness ==
    /\ lastOp.op \in UpdateOps \cup RemoveOps
    /\ cache[lastOp.key].data = NULL
    /\ cache[lastOp.key].timestamp = now
    /\ ~cache[lastOp.key].loading
    /\ Outstanding(lastOp.key) # {}

----------------------------------------------------------------------------
(* the list of a slot, empty when the slot holds none *)
SlotList(c, k) == IF c[k].data # NULL THEN Val(c[k].data) ELSE <<>>

(* C11: no step turns the status of a document from CONFIRMED to DRAFT,     *)
(* neither in the slot of its type nor in the list the page holds.          *)
C11_ConfirmedIsTerminal ==
    [][\A id \in Ids :
          /\ \A t \in DocTypes :
                HasStatus(SlotList(cache, t), id, "CONFIRMED")
                   => ~HasStatus(SlotList(cache', t), id, "DRAFT")
          /\ HasStatus(page.documents, id, "CONFIRMED")
                => ~HasStatus(page'.documents, id, "DRAFT")
      ]_vars

(* the requests of a kind whose handler has gone on to reload, no call on  *)
(* the key being in flight then                                             *)
Reloaded(kinds) ==
    {r \in 1..Len(requests) :
        /\ requests[r].kind \in kinds
        /\ requests[r].reload # 0
        /\ calls[requests[r].reload].pending = {}}

(* C12: the load that follows a failed api.createDocument or                *)
(* api.updateDocument finds the slot invalidated and invokes fetchFunction; *)
(* what it resolves to is the backend's list, filtered.                     *)
C12_FailedSubmitRefetches ==
    \A r \in Reloaded({"createDocument", "updateDocument"}) :
        LET c == calls[requests[r].reload]
        IN  /\ c.slot = EmptySlot
            /\ c.invoked = 1
            /\ c.pc = "resolved" => c.result = Returned(c, cache[c.key].data)

(* C14: the load that follows a successful api.confirmDocument invokes      *)
(* fetchFunction, and the list it resolves to does not hold the document as *)
(* a DRAFT: it holds it as CONFIRMED unless another client removed it.      *)
C14_ConfirmRefetches ==
    \A r \in Reloaded({"confirmDocument"}) :
        LET c == calls[requests[r].reload]
        IN  /\ c.invoked = 1
            /\ ( c.pc = "resolved" /\ c.result # NULL )
               => ~HasStatus(Val(c.result), requests[r].id, "DRAFT")

----------------------------------------------------------------------------
(* C13: the reload that follows a failed api.deleteProduct or               *)
(* api.updateProduct, made with no call on the key in flight, invokes       *)
(* fetchFunction (the key having been invalidated), so that the slot comes  *)
(* to hold the backend's list in place of the optimistic change.            *)
C13_FailedMutationRefetches ==
    \A r \in 1..Len(requests) :
        ( requests[r].kind \in {"deleteProduct", "updateProduct"} /\ requests[r].reload # 0 )
        => LET c == calls[requests[r].reload]
           IN  c.pending = {} => c.invoked = 1

----------------------------------------------------------------------------
(* C15: in the step in which a getDocuments call resolves, the slot of its  *)
(* type holds a list and the call's value is that list restricted to the    *)
(* documents whose status is the filter (the whole list when the filter is  *)
(* empty); when the call fetched, the slot's list is the backend's whole    *)
(* response, whatever the filter.                                           *)
C15_FilterOverSlot ==
    [][\A c \in 1..Len(calls') :
          LET call == calls'[c]
              k == call.key
          IN  ( /\ call.via = "getDocuments"
                /\ call.pc = "resolved"
                /\ ( c \notin Calls \/ calls[c].pc # "resolved" ) )
              => /\ cache'[k].data # NULL
                 /\ call.result =
                       Some(FilterByStatus(SlotList(cache', k), call.statusFilter))
                 /\ call.invoked = 1 => cache'[k].data = Some(Response(calls[c]))
      ]_vars

----------------------------------------------------------------------------
(* the freshness window of a call's key *)
Window(call) ==
    IF call.key \in DocTypes THEN DOCUMENT_CACHE_DURATION ELSE CACHE_DURATION

(* C16: a call that resolves without invoking fetchFunction, on a key that  *)
(* has been fetched, is made less than the key's freshness window after the *)
(* latest backend response for the key was stored; the value it returns     *)
(* derives from that response or an older one.                              *)
C16_StaleReadsBounded ==
    \A c \in Calls :
        ( /\ calls[c].pc = "resolved"
          /\ calls[c].invoked = 0
          /\ calls[c].lastFetch # NullTimestamp )
        => calls[c].issued - calls[c].lastFetch < Window(calls[c])

----------------------------------------------------------------------------
(* C17: the step that ends the session (logout) resets the slots: after it  *)
(* none of the eight slots holds data or a timestamp.                       *)
C17_LogoutClearsCache ==
    [][( user # NullUser /\ user' = NullUser )
          => \A k \in Keys : cache'[k].data = NULL /\ cache'[k].timestamp = NullTimestamp
      ]_vars

----------------------------------------------------------------------------
----------------------------------------------------------------------------
(* a call of updateCache, direct or through a helper *)
UpdateCacheStep ==
    lastOp'.n = lastOp.n + 1 /\ lastOp'.op \in HelperOps \cup {"updateCache"}

(* C19: updateCache(k, u) makes the data of slot k u(current data) when u   *)
(* is a function and u itself otherwise, makes the timestamp the current    *)
(* time and loading false, starts no fetch and changes no other slot.       *)
C19_UpdateCacheEffect ==
    [][UpdateCacheStep =>
          LET k == lastOp'.key
              u == lastOp'.arg
          IN  /\ lastOp'.op = "updateCache" =>
                    /\ u.function => cache'[k].data = Call(u, cache[k].data)
                    /\ ~u.function => cache'[k].data = u.value
              /\ cache'[k].timestamp = now
              /\ cache'[k].loading = FALSE
              /\ calls' = calls
              /\ server' = server
              /\ \A j \in Keys \ {k} : cache'[j] = cache[j]
      ]_vars

(* updateCache was called with a plain value on a slot that held a fetched  *)
(* list, while another slot is loading: the slot holds the value, stamped   *)
(* now and not loading, and the other slot is still loading                 *)
C19_Witness ==
    /\ lastOp.op = "updateCache"
    /\ ~lastOp.arg.function
    /\ lastFetch[lastOp.key] # NullTimestamp
    /\ cache[lastOp.key] = [data |-> lastOp.arg.value, timestamp |-> now, loading |-> FALSE]
    /\ \E j \in Keys \ {lastOp.key} : cache[j].loading

----------------------------------------------------------------------------
(* the helpers that merge the given fields into the matching entries; the   *)
(* other update helpers put the given entity in their place                 *)
PatchOps == {"updateWarehouse", "updateUser", "updateDocument"}

(* the j-th smallest member of a set of indices *)
Nth(indices, j) ==
    CHOOSE i \in indices : Cardinality({m \in indices : m <= i}) = j

(* C20: on a slot whose data is a list, an add helper puts the new entry    *)
(* last and keeps the entries before it; an update helper keeps the length  *)
(* and every entry with another id, and replaces each entry with the given  *)
(* id (so the list is unchanged when no id matches); a remove helper keeps  *)
(* exactly the entries with another id, in their order.                     *)
C20_HelpersOnData ==
    [][( HelperStep /\ cache[lastOp'.key].data # NULL ) =>
          LET k == lastOp'.key
              op == lastOp'.op
              arg == lastOp'.arg
              old == Val(cache[k].data)
              new == SlotList(cache', k)
              kept == {i \in 1..Len(old) : old[i].id # arg.id}
          IN  /\ cache'[k].data # NULL
              /\ op \in AddOps =>
                    /\ Len(new) = Len(old) + 1
                    /\ new[Len(new)] = arg
                    /\ \A i \in 1..Len(old) : new[i] = old[i]
              /\ op \in UpdateOps =>
                    /\ Len(new) = Len(old)
                    /\ \A i \in kept : new[i] = old[i]
                    /\ \A i \in (1..Len(old)) \ kept :
                          IF op \in PatchOps
                          THEN /\ DOMAIN new[i] = DOMAIN old[i] \cup DOMAIN arg
                               /\ \A f \in DOMAIN new[i] :
                                     new[i][f] = IF f \in DOMAIN arg THEN arg[f]
                                                 ELSE old[i][f]
                          ELSE new[i] = arg
                    /\ kept = 1..Len(old) => cache'[k].data = cache[k].data
              /\ op \in RemoveOps =>
                    /\ Len(new) = Cardinality(kept)
                    /\ \A j \in 1..Len(new) : new[j] = old[Nth(kept, j)]
      ]_vars

(* an update helper ran on a list of two entries with different ids and     *)
(* changed the second: the first is as it was added, the second differs     *)
(* from the entry added there                                               *)
C20_Witness ==
    /\ lastOp.op \in UpdateOps
    /\ lastOp.prev.op \in AddOps
    /\ Len(SlotList(cache, lastOp.key)) = 2
    /\ SlotList(cache, lastOp.key)[1].id # lastOp.arg.id
    /\ SlotList(cache, lastOp.key)[2].id = lastOp.arg.id
    /\ SlotList(cache, lastOp.key)[2] # NewEntity(lastOp.key, lastOp.arg.id)

----------------------------------------------------------------------------
SubmitKinds == {"createDocument", "updateDocument"}

(* the requests of handleSubmit whose response is handled in this step *)
Settling(pc) ==
    {r \in 1..Len(requests) :
        /\ requests[r].kind \in SubmitKinds
        /\ requests[r].pc = pc
        /\ requests'[r].pc = "done"}

(* C21: submitting the form changes neither the slot nor the page's list;   *)
(* addDocument or updateDocument is applied, with the backend's answer, only *)
(* in the step that handles a successful response; the step that handles a *)
(* failed one applies neither, leaves the page's list alone and leaves the  *)
(* slot without data; the page's list changes only with a successful        *)
(* response or a finished load.                                             *)
C21_MutateAfterSuccess ==
    [][/\ ( /\ Len(requests') = Len(requests) + 1
            /\ requests'[Len(requests')].kind \in SubmitKinds )
          => cache' = cache /\ page' = page
       /\ ( lastOp'.n # lastOp.n /\ lastOp'.op \in {"addDocument", "updateDocument"} )
          => \E r \in Settling("ok") : lastOp'.arg = requests[r].response
       /\ Settling("failed") # {}
          => /\ lastOp'.op \notin {"addDocument", "updateDocument"}
             /\ page' = page
             /\ cache'["receipts"].data = NULL
       /\ page'.documents # page.documents
          => Settling("ok") # {} \/ page'.loaded # page.loaded
      ]_vars

(* one submit failed and was answered by a reload, another succeeded and    *)
(* its new document was added to the slot and to the page's list            *)
C21_Witness ==
    /\ \E r \in 1..Len(requests) :
          requests[r].kind \in SubmitKinds /\ requests[r].reload # 0
    /\ \E r \in 1..Len(requests) :
          /\ requests[r].kind = "createDocument"
          /\ requests[r].pc = "done"
          /\ requests[r].reload = 0
          /\ lastOp.op = "addDocument"
          /\ lastOp.arg \in Range(SlotList(cache, "receipts"))
          /\ lastOp.arg \in Range(page.documents)

----------------------------------------------------------------------------
(* the rows of the page's list with this id *)
Rows(id) == {i \in 1..Len(page.documents) : page.documents[i].id = id}

(* C22: a confirmDocument request is sent only by an ADMIN and only for a   *)
(* document the page shows as a DRAFT, through the Confirm button of that   *)
(* row; a row shown as CONFIRMED has no button, and no row has a Confirm    *)
(* button for a STAFF principal.                                            *)
C22_ConfirmGuard ==
    [][/\ ( /\ Len(requests') = Len(requests) + 1
            /\ requests'[Len(requests')].kind = "confirmDocument" )
          => /\ user = "ADMIN"
             /\ \E i \in Rows(requests'[Len(requests')].id) :
                   /\ page.documents[i].status = "DRAFT"
                   /\ "confirm" \in RowActions(page.documents[i])
       /\ \A i \in 1..Len(page.documents) :
             /\ page.documents[i].status = "CONFIRMED"
                   => RowActions(page.documents[i]) = {}
             /\ user = "STAFF" => "confirm" \notin RowActions(page.documents[i])
      ]_vars

(* an admin has sent a confirmDocument request for a receipt shown as DRAFT *)
C22_Witness ==
    /\ user = "ADMIN"
    /\ \E r \in Sent :
          /\ requests[r].kind = "confirmDocument"
          /\ HasStatus(page.documents, requests[r].id, "DRAFT")

(* a STAFF principal looks at a receipt shown as DRAFT *)
C22_StaffSeesDraft ==
    /\ user = "STAFF"
    /\ \E id \in Ids : HasStatus(page.documents, id, "DRAFT")

----------------------------------------------------------------------------
(* the lists the backend holds for a key in the course of a run *)
ServerLists(key) == {InitialList(key), ChangedList(key)}

(* the locations of a warehouse in a list, all of them without a warehouse *)
LocationsOf(list, warehouseId) ==
    IF warehouseId # NullId
    THEN SelectSeq(list, LAMBDA l : l.warehouse_id = warehouseId)
    ELSE list

(* C23: a getLocations call made with an up-to-date closure and nothing in  *)
(* flight resolves to the locations of its warehouse, all locations when it *)
(* names none, as the backend holds or held them.                           *)
C23_LocationsByWarehouse ==
    \A c \in Calls :
        ( /\ calls[c].fetchFunction = "getLocations"
          /\ calls[c].pc = "resolved"
          /\ calls[c].result # NULL
          /\ calls[c].pending = {}
          /\ calls[c].seen = calls[c].slot )
        => \E list \in ServerLists("locations") :
              calls[c].result = Some(LocationsOf(list, calls[c].arg))

----------------------------------------------------------------------------
(* the list shows the effect of the helper call `op` *)
Reflected(op, list) ==
    CASE op.op \in AddOps -> op.arg \in Range(list)
      [] op.op \in RemoveOps -> \A i \in 1..Len(list) : list[i].id # op.arg.id
      [] op.op \in UpdateOps ->
            \A i \in 1..Len(list) :
               list[i].id = op.arg.id
                  => \A f \in DOMAIN op.arg : list[i][f] = op.arg[f]
      [] OTHER -> TRUE

(* C24: when a fetch completes (one begun with no other call in flight)     *)
(* whose slot was last changed by a helper,                                 *)
(* called while the fetch was in flight and after the backend had made its  *)
(* answer, and the backend has accepted the change since, the slot still    *)
(* shows the effect of the helper.                                          *)
C24_FetchKeepsOptimistic ==
    [][\A c \in Calls :
          ( /\ calls[c].pc = "fetching"
            /\ calls'[c].pc = "resolved"
            /\ calls[c].served # NULL
            /\ calls[c].pending = {}
            /\ lastOp.op \in HelperOps
            /\ lastOp.key = calls[c].key
            /\ \E r \in 1..Len(requests) :
                  /\ requests[r].key = calls[c].key
                  /\ requests[r].id = lastOp.arg.id
                  /\ requests[r].pc \in {"ok", "done"}
                  /\ requests[r].reload = 0 )
          => Reflected(lastOp, SlotList(cache', calls[c].key))
      ]_vars

----------------------------------------------------------------------------
(* C25: submitting the edit of a warehouse the page shows puts the edited   *)
(* warehouse in the place of the old one in the warehouses slot and sends   *)
(* the update request for its id.                                           *)
C25_EditWarehouseOptimistic ==
    [][\A id \in Ids :
          WarehousesHandleSubmit(id, Edit("warehouses")) =>
             /\ cache'["warehouses"].data =
                   Replaced(cache["warehouses"].data,
                            Merge(Find(page.warehouses, id), Edit("warehouses")))
             /\ Len(requests') = Len(requests) + 1
             /\ requests'[Len(requests')].kind = "updateWarehouse"
             /\ requests'[Len(requests')].id = id
      ]_vars

----------------------------------------------------------------------------
(* C26: a step that changes the cache is one operation on one key (a call   *)
(* of a getter, the completion or the failure of a fetch, a helper, an      *)
(* invalidation) and leaves the slot of every other key as it was.          *)
C26_OtherKeysUntouched ==
    [][cache' # cache =>
          /\ lastOp'.n = lastOp.n + 1
          /\ lastOp'.key \in Keys
          /\ \A j \in Keys \ {lastOp'.key} : cache'[j] = cache[j]
      ]_vars

(* a products fetch completed after addWarehouse had run while it was in    *)
(* flight: both slots hold their lists                                      *)
C26_Witness ==
    /\ lastOp.op = "FetchSucceed"
    /\ lastOp.key = "products"
    /\ lastOp.prev.op = "addWarehouse"
    /\ cache["products"].data # NULL
    /\ cache["warehouses"].data # NULL
    /\ cache["warehouses"].timestamp # NullTimestamp

----------------------------------------------------------------------------
(* C27: a call that has resolved has resolved to a list, never to null.     *)
C27_ResolvedNonNull ==
    \A c \in Calls : calls[c].pc = "resolved" => calls[c].result # NULL

(* a call joined a fetch that then failed and has polled since: the slot is *)
(* not loading and holds no data, and the call has not resolved             *)
C27_Witness ==
    \E c \in Calls :
        /\ calls[c].pc = "waiting"
        /\ calls[c].polls > 0
        /\ lastOp.op = "FetchFail"
        /\ lastOp.key = calls[c].key
        /\ ~cache[calls[c].key].loading
        /\ cache[calls[c].key].data = NULL

----------------------------------------------------------------------------
(* C28: whenever a user is set, a token is stored.                          *)
C28_UserImpliesToken ==
    user # NullUser => auth.token # NoToken

----------------------------------------------------------------------------
(* C29: at most one timer is pending, and a change of the query leaves none *)
(* of the timers that were pending; api.smartSearch is called, and so a     *)
(* request sent, only with a query of trimmed length 2 or more that is the  *)
(* query of the box and has been for 300 ms or longer; a timer that fires   *)
(* for a shorter query empties the suggestions and calls nothing.           *)
C29_Debounce ==
    [][/\ Cardinality(search'.timers) <= 1
       /\ search'.query # search.query => search'.timers \cap search.timers = {}
       /\ Len(search'.requests) <= Len(search'.called)
       /\ \A i \in 1..Len(search'.called) :
             LET call == search'.called[i]
             IN  /\ Len(trim(call.query)) >= 2
                 /\ call.current = call.query
                 /\ call.at - call.since >= 300
       /\ \A t \in search.timers \ search'.timers :
             ( search'.query = search.query /\ Len(trim(t.query)) < 2 )
                => /\ search'.suggestions = <<>>
                   /\ search'.called = search.called
                   /\ search'.requests = search.requests
      ]_vars

(* a query was typed, changed before its timer fired, and the timer of the  *)
(* second query, one with blanks around two letters or more, has fired      *)
C29_Witness ==
    /\ search.nextTimer >= 4
    /\ search.timers = {}
    /\ Len(search.called) = 1
    /\ Len(search.called[1].query) > Len(trim(search.called[1].query))

----------------------------------------------------------------------------
(* C30: in the row of every ledger entry exactly one of In and Out shows a  *)
(* quantity: In shows qty_change when it is positive and Out shows the      *)
(* absolute value of qty_change when it is negative; Balance shows the      *)
(* running_balance of the entry itself.  A cell shows a quantity when the   *)
(* number it displays is that quantity, a number of hundredths here.        *)
C30_LedgerRows ==
    \A i \in 1..Len(page.ledger) :
       LET entry == page.ledger[i]
           row == LedgerRow(entry)
       IN  /\ (row.In = NULL) # (row.Out = NULL)
           /\ entry.qty_change > 0 =>
                 row.In # NULL /\ Val(row.In) * 100 = entry.qty_change
           /\ entry.qty_change < 0 =>
                 row.Out # NULL /\ Val(row.Out) * 100 = -entry.qty_change
           /\ Val(row.Balance) * 100 = entry.running_balance

====
